---------------------------- MODULE Spec2Model ----------------------------
(***************************************************************************)
(* Verification model of mcp-DEEPwebresearch.                              *)
(*                                                                         *)
(*  - ResearchSession (src/src/core/research-session.ts): processUrl,      *)
(*    fetchContent, initializeBrowser, the findings merge, complete().     *)
(*  - ParallelSearch (src/unnamed/part_006): initialize, singleSearch,     *)
(*    parallelSearch, cleanup.                                             *)
(*  - DeepResearch.normalizeUrl / deduplicateResults                       *)
(*    (src/src/deep-research.ts).                                          *)
(*                                                                         *)
(* Scores are fixed-point numbers in thousandths (1000 = 1.0).  Time is a  *)
(* discrete clock; one tick is an arbitrary unit of wall-clock time.       *)
(* Every `await` of the source is a suspension point: the code between two *)
(* awaits is one atomic action, as on the single-threaded event loop.      *)
(***************************************************************************)
EXTENDS Integers, Sequences, FiniteSets, TLC

VARIABLES
    \* ---- ResearchSession ----
    now,            \* Date.now(), in ticks since the session was constructed
    options,        \* this.options (timeout, minRelevanceScore, maxDepth)
    status,         \* this.status
    completedAt,    \* this.timestamp.completed ("undefined" or "set")
    visitedUrls,    \* this.visitedUrls
    progress,       \* this.progress (processedContent, visitedUrls)
    findings,       \* this.findings (mainTopics, keyInsights, sources)
    browser,        \* this.browser (0: null, else the id of a launched browser)
    context,        \* this.context (0: null, else the id of the browser it belongs to)
    launched,       \* number of chromium.launch() calls that resolved
    openBrowsers,   \* ids of launched browsers not closed yet
    openContexts,   \* ids of created contexts not closed yet
    calls,          \* the processUrl invocations: position, url, result, history
    navigations,    \* every page.goto begun: [call, url, at]
    completePc,     \* position of the complete() invocation
    researchResult, \* what startResearch returns: formatResults(session)
    topicLog,       \* history: every (name, adjustedConfidence) updateTopics has merged
    \* ---- ParallelSearch ----
    maxParallel,    \* this.options.maxParallel
    psBrowser,      \* this.browser (0: null)
    contexts,       \* this.contexts: the pool, a sequence of context ids
    psLaunched,     \* number of chromium.launch() calls that resolved
    closedBrowsers, \* ids of the browsers closed by cleanup()
    closedContexts, \* the contexts closed by cleanup()
    invocations,    \* the parallelSearch invocations
    cleanupPc,      \* position of the cleanup() invocation
    \* ---- DeepResearch.deduplicateResults ----
    nuResults,      \* the result list handed to deduplicateResults
    nuUnique,       \* what deduplicateResults returned
    nuPc,           \* position of deduplicateResults: [pc, index of the next element]
    \* ---- ContentAnalyzer.extractKeyPoints / deduplicateKeyPoints ----
    analysisOptions,    \* the AnalysisOptions given to analyze()
    sentences,          \* the sentences extractKeyPoints visits, in visiting order
    keyPoints,          \* extractKeyPoints: the keyPoints array, then its return value
    analysisKeyPoints,  \* result.keyPoints of analyze()
    analyzerPc,         \* position of analyze(): [pc, index of the next sentence]
    \* ---- SearchQueue ----
    queue,          \* this.queue: the items [id, status, retryCount, error]
    inProgress,     \* this.inProgress
    loops,          \* the processQueue invocations that passed the guard and run
    nextId,         \* the id the next addSearch gives out
    lastCall,       \* the last call of a public method, with what it returned
    \* ---- CallToolRequestSchema handler (index.ts) ----
    request,        \* request.params: the tool name and its arguments
    toolCall,       \* position of the handler, and the error code thrown inside its try
    response,       \* what the caller receives: a result or an error code
    sessionOptions, \* this.options of the ResearchSession the request constructed
    toolBrowser,    \* index.ts `browser`: whether ensureBrowser() launched it
    \* ---- ContentExtractor.extract ----
    html,           \* the document as received: the elements of its body
    dom,            \* $, the cheerio document extract works on
    metadata,       \* the metadata of the ExtractedContent returned
    extractPc,      \* position of extract()
    \* ---- ParallelSearch.singleSearch: the evaluation of the result page ----
    searchQuery,    \* the query typed into the search input
    elements,       \* the div.g elements of the result page, in page order
    scoredResults,  \* what page.$$eval returns
    evalPc,         \* position of the evaluation
    \* ---- DeepResearch.startResearch ----
    resultCount,    \* sortedResults.length: the unique results, best first
    urlCalls,       \* the session.processUrl call made for each sorted result
    researchPc,     \* position of startResearch
    writes          \* history: the writes to session.findings, [call, list]

varsS == <<now, options, status, completedAt, visitedUrls, progress, findings,
           browser, context, launched, openBrowsers, openContexts, calls, navigations, completePc,
           researchResult, topicLog>>

varsD == <<maxParallel, psBrowser, contexts, psLaunched, closedBrowsers,
           closedContexts, invocations, cleanupPc>>

varsN == <<nuResults, nuUnique, nuPc>>

varsA == <<analysisOptions, sentences, keyPoints, analysisKeyPoints, analyzerPc>>

varsQ == <<queue, inProgress, loops, nextId, lastCall>>

varsH == <<request, toolCall, response, sessionOptions, toolBrowser>>

varsX == <<html, dom, metadata, extractPc>>

varsE == <<searchQuery, elements, scoredResults, evalPc>>

varsR == <<resultCount, urlCalls, researchPc, writes>>

vars == <<varsS, varsD, varsN, varsA, varsQ, varsH, varsX, varsE, varsR>>

\* What the actions of one component leave alone: the other components.
otherThanSession == <<varsD, varsN, varsA, varsQ, varsH, varsX, varsE, varsR>>

otherThanDispatcher == <<varsS, varsN, varsA, varsQ, varsH, varsX, varsE, varsR>>

otherThanNormalize == <<varsS, varsD, varsA, varsQ, varsH, varsX, varsE, varsR>>

otherThanAnalyzer == <<varsS, varsD, varsN, varsQ, varsH, varsX, varsE, varsR>>

otherThanQueue == <<varsS, varsD, varsN, varsA, varsH, varsX, varsE, varsR>>

otherThanHandler == <<varsS, varsD, varsN, varsA, varsQ, varsX, varsE, varsR>>

otherThanExtractor == <<varsS, varsD, varsN, varsA, varsQ, varsH, varsE, varsR>>

otherThanEvaluation == <<varsS, varsD, varsN, varsA, varsQ, varsH, varsX, varsR>>

otherThanResearch == <<varsS, varsD, varsN, varsA, varsQ, varsH, varsX, varsE>>

-----------------------------------------------------------------------------
(* Bounds of the model *)

NumCalls == 2

\* parallelSearch invocations in flight on one ParallelSearch instance.
NumInvocations == 2

\* Longest query list handed to parallelSearch.
MaxQueries == 3

\* Longest query list of a call that shares the instance with another call.
MaxSharedQueries == 2

\* Largest options.maxParallel the instance is constructed with.
MaxPool == 2

MaxTime == 1

\* Longest list of search results given to deduplicateResults.
MaxResults == 2

\* Longest list of sentences extractKeyPoints visits.
MaxSentences == 3

\* Items ever added to the SearchQueue.
MaxItems == 3

\* Longest query list given to addBatchSearch.
MaxBatch == 2

\* Longest queries argument of a parallel_search request.
MaxToolQueries == 6

\* Most elements in the body of a document given to extract().
MaxElements == 3

\* Most plain results at the head of a result page, before the varied ones.
MaxLeading == 11

\* Most varied results at the end of a result page.
MaxVaried == 2

\* Most unique results the initial searches of startResearch yield.
MaxUnique == 6

-----------------------------------------------------------------------------
(* Generic helpers *)

Min(a, b) == IF a < b THEN a ELSE b

Max(a, b) == IF a > b THEN a ELSE b

\* JavaScript `v || d` on a number: 0 (like undefined and NaN) is falsy.
OrDefault(v, d) == IF v = 0 THEN d ELSE v

Range(s) == {s[i] : i \in 1..Len(s)}

-----------------------------------------------------------------------------
(* The components before use: each specification runs one component and     *)
(* leaves the others as they are here.                                       *)

NoResult == [returned |-> FALSE]

IdleSession ==
    /\ now = 0
    /\ options = [timeout |-> 0, minRelevanceScore |-> 0, maxDepth |-> 0]
    /\ status = "planning"
    /\ completedAt = "undefined"
    /\ visitedUrls = {}
    /\ progress = [processedContent |-> 0, visitedUrls |-> {}]
    /\ findings = [mainTopics |-> <<>>, keyInsights |-> <<>>, sources |-> <<>>]
    /\ browser = 0
    /\ context = 0
    /\ launched = 0
    /\ openBrowsers = {}
    /\ openContexts = {}
    /\ calls = <<>>
    /\ navigations = {}
    /\ completePc = [pc |-> "idle", closing |-> 0]
    /\ researchResult = NoResult
    /\ topicLog = {}

IdleDispatcher ==
    /\ maxParallel = 0
    /\ psBrowser = 0
    /\ contexts = <<>>
    /\ psLaunched = 0
    /\ closedBrowsers = {}
    /\ closedContexts = {}
    /\ invocations = <<>>
    /\ cleanupPc = [pc |-> "idle", index |-> 0, closing |-> 0]

IdleNormalize ==
    /\ nuResults = <<>>
    /\ nuUnique = <<>>
    /\ nuPc = [pc |-> "idle", index |-> 0]

IdleAnalyzer ==
    /\ analysisOptions = [maxKeyPoints |-> 0, minImportance |-> 0]
    /\ sentences = <<>>
    /\ keyPoints = <<>>
    /\ analysisKeyPoints = <<>>
    /\ analyzerPc = [pc |-> "idle", index |-> 0]

IdleQueue ==
    /\ queue = <<>>
    /\ inProgress = FALSE
    /\ loops = <<>>
    /\ nextId = 1
    /\ lastCall = [op |-> "none"]

NoRequest == [name |-> "none"]

NoResponse == [kind |-> "none"]

NoOptions == [maxDepth |-> 0, maxBranching |-> 0, timeout |-> 0, minRelevanceScore |-> 0]

IdleHandler ==
    /\ request = NoRequest
    /\ toolCall = [pc |-> "idle", thrown |-> ""]
    /\ response = NoResponse
    /\ sessionOptions = NoOptions
    /\ toolBrowser = FALSE

NoMetadata == [wordCount |-> 0, readingTime |-> 0]

IdleExtractor ==
    /\ html = <<>>
    /\ dom = <<>>
    /\ metadata = NoMetadata
    /\ extractPc = "idle"

IdleEvaluation ==
    /\ searchQuery = <<>>
    /\ elements = <<>>
    /\ scoredResults = <<>>
    /\ evalPc = "idle"

IdleResearch ==
    /\ resultCount = 0
    /\ urlCalls = <<>>
    /\ researchPc = "idle"
    /\ writes = <<>>

IdleExceptSession ==
    /\ IdleDispatcher
    /\ IdleNormalize
    /\ IdleAnalyzer
    /\ IdleQueue
    /\ IdleHandler
    /\ IdleExtractor
    /\ IdleEvaluation
    /\ IdleResearch

IdleExceptDispatcher ==
    /\ IdleSession
    /\ IdleNormalize
    /\ IdleAnalyzer
    /\ IdleQueue
    /\ IdleHandler
    /\ IdleExtractor
    /\ IdleEvaluation
    /\ IdleResearch

IdleExceptNormalize ==
    /\ IdleSession
    /\ IdleDispatcher
    /\ IdleAnalyzer
    /\ IdleQueue
    /\ IdleHandler
    /\ IdleExtractor
    /\ IdleEvaluation
    /\ IdleResearch

IdleExceptAnalyzer ==
    /\ IdleSession
    /\ IdleDispatcher
    /\ IdleNormalize
    /\ IdleQueue
    /\ IdleHandler
    /\ IdleExtractor
    /\ IdleEvaluation
    /\ IdleResearch

IdleExceptQueue ==
    /\ IdleSession
    /\ IdleDispatcher
    /\ IdleNormalize
    /\ IdleAnalyzer
    /\ IdleHandler
    /\ IdleExtractor
    /\ IdleEvaluation
    /\ IdleResearch

IdleExceptHandler ==
    /\ IdleSession
    /\ IdleDispatcher
    /\ IdleNormalize
    /\ IdleAnalyzer
    /\ IdleQueue
    /\ IdleExtractor
    /\ IdleEvaluation
    /\ IdleResearch

IdleExceptExtractor ==
    /\ IdleSession
    /\ IdleDispatcher
    /\ IdleNormalize
    /\ IdleAnalyzer
    /\ IdleQueue
    /\ IdleHandler
    /\ IdleEvaluation
    /\ IdleResearch

IdleExceptEvaluation ==
    /\ IdleSession
    /\ IdleDispatcher
    /\ IdleNormalize
    /\ IdleAnalyzer
    /\ IdleQueue
    /\ IdleHandler
    /\ IdleExtractor
    /\ IdleResearch

IdleExceptResearch ==
    /\ IdleSession
    /\ IdleDispatcher
    /\ IdleNormalize
    /\ IdleAnalyzer
    /\ IdleQueue
    /\ IdleHandler
    /\ IdleExtractor
    /\ IdleEvaluation

-----------------------------------------------------------------------------
(* ResearchSession: inputs *)

\* URLs handed to processUrl: a pathname and its extension.
Urls == { [path |-> "a", ext |-> ""],
          [path |-> "b", ext |-> ""],
          [path |-> "paper", ext |-> ".pdf"] }

SkipExtensions == {".pdf", ".doc", ".docx", ".xls", ".xlsx", ".ppt", ".pptx"}

\* What ContentAnalyzer.analyze can hand to processFindings.  `technical`,
\* `code` and `tech` are the outcomes of the text tests of updateTopics
\* (hasTechnicalContent) and updateInsights (relatedCode / relatedTechnical
\* non-empty) on the extracted content.
AnalysisChoices ==
    { [ topics |-> <<>>, keyPoints |-> <<>>,
        credibility |-> 500, hasTechnical |-> FALSE ],
      [ topics |-> << [name |-> "mcp", confidence |-> 500, technical |-> FALSE] >>,
        keyPoints |-> << [text |-> "k1", importance |-> 600, code |-> TRUE, tech |-> TRUE] >>,
        credibility |-> 900, hasTechnical |-> TRUE ],
      [ topics |-> << [name |-> "api", confidence |-> 400, technical |-> FALSE],
                      [name |-> "mcp", confidence |-> 800, technical |-> TRUE] >>,
        keyPoints |-> << [text |-> "k2", importance |-> 600, code |-> FALSE, tech |-> FALSE],
                         [text |-> "k3", importance |-> 900, code |-> TRUE, tech |-> FALSE] >>,
        credibility |-> 700, hasTechnical |-> FALSE ] }

\* minRelevanceScore values a caller passes (0 also stands for "not given").
MinRelevanceChoices == {0, 500, 1050}

\* How the fetch and extraction of one page can end.
FetchOutcomes == {"ok", "fetchError", "extractError"}

DefaultMinRelevance == 700

DefaultMaxDepth == 2

-----------------------------------------------------------------------------
(* ResearchSession: pure parts *)

\* checkTimeout throws when this holds (startTime is tick 0).
TimedOut(t) == t - 0 >= options.timeout

isProcessableUrl(u) == u.ext \notin SkipExtensions

\* this.findings.mainTopics.sort((a, b) => b.importance - a.importance)
RECURSIVE InsertByImportance(_, _)
InsertByImportance(x, s) ==
    IF s = <<>> THEN <<x>>
    ELSE IF Head(s).importance >= x.importance
         THEN <<Head(s)>> \o InsertByImportance(x, Tail(s))
         ELSE <<x>> \o s

RECURSIVE SortByImportance(_)
SortByImportance(s) ==
    IF s = <<>> THEN <<>>
    ELSE InsertByImportance(s[Len(s)], SortByImportance(SubSeq(s, 1, Len(s) - 1)))

\* this.findings.keyInsights.sort((a, b) => b.confidence - a.confidence)
RECURSIVE InsertByConfidence(_, _)
InsertByConfidence(x, s) ==
    IF s = <<>> THEN <<x>>
    ELSE IF Head(s).confidence >= x.confidence
         THEN <<Head(s)>> \o InsertByConfidence(x, Tail(s))
         ELSE <<x>> \o s

RECURSIVE SortByConfidence(_)
SortByConfidence(s) ==
    IF s = <<>> THEN <<>>
    ELSE InsertByConfidence(s[Len(s)], SortByConfidence(SubSeq(s, 1, Len(s) - 1)))

\* updateTopics: adjustedConfidence of one analysed topic.
TopicAdjusted(t) ==
    IF t.technical THEN Min(1000, (t.confidence * 13) \div 10) ELSE t.confidence

MergeTopicOverwriting(topics, t) ==
    IF \E i \in 1..Len(topics) : topics[i].name = t.name
    THEN [i \in 1..Len(topics) |->
            IF topics[i].name = t.name
            THEN [topics[i] EXCEPT !.importance = TopicAdjusted(t)]
            ELSE topics[i]]
    ELSE Append(topics, [name |-> t.name, importance |-> TopicAdjusted(t)])

\* updateTopics, the body of the forEach: raise an existing topic or push.
MergeTopic(topics, t) ==
    IF \E i \in 1..Len(topics) : topics[i].name = t.name
    THEN [i \in 1..Len(topics) |->
            IF topics[i].name = t.name
                /\ \A j \in 1..(i - 1) : topics[j].name # t.name
            THEN [topics[i] EXCEPT !.importance = Max(@, TopicAdjusted(t))]
            ELSE topics[i]]
    ELSE Append(topics, [name |-> t.name, importance |-> TopicAdjusted(t)])

RECURSIVE MergeTopics(_, _)
MergeTopics(topics, new) ==
    IF new = <<>> THEN topics
    ELSE MergeTopics(MergeTopic(topics, Head(new)), Tail(new))

updateTopicsUnsorted(topics, analysis) ==
    IF analysis.topics = <<>> THEN topics
    ELSE MergeTopics(topics, analysis.topics)

\* updateTopics: nothing to do without topics; else merge each and sort.
updateTopics(topics, analysis) ==
    IF analysis.topics = <<>> THEN topics
    ELSE SortByImportance(MergeTopics(topics, analysis.topics))

\* updateInsights: adjustedConfidence of one key point (x1.2 code, x1.1 technical).
InsightAdjusted(p) ==
    LET c1 == IF p.code THEN (p.importance * 12) \div 10 ELSE p.importance
    IN  IF p.tech THEN (c1 * 11) \div 10 ELSE c1

\* Mutant of MeetsThreshold: the comparison is inverted.
MeetsThresholdInverted(p) == InsightAdjusted(p) <= options.minRelevanceScore

\* updateInsights, the test that admits a key point.
MeetsThreshold(p) == InsightAdjusted(p) >= options.minRelevanceScore

\* `adjusted` records the value the threshold test saw; the stored confidence
\* is capped at 1.
RECURSIVE PushInsights(_, _)
PushInsights(insights, points) ==
    IF points = <<>> THEN insights
    ELSE PushInsights(
            IF MeetsThreshold(Head(points))
            THEN Append(insights, [ text |-> Head(points).text,
                                    confidence |-> Min(1000, InsightAdjusted(Head(points))),
                                    adjusted |-> InsightAdjusted(Head(points)) ])
            ELSE insights,
            Tail(points))

updateInsights(insights, analysis) ==
    SortByConfidence(PushInsights(insights, analysis.keyPoints))

\* The Source object updateSources builds for an analysed page.
NewSource(url, analysis) ==
    [ url |-> url,
      credibilityScore |->
          IF analysis.hasTechnical
          THEN Min(1000, (analysis.credibility * 12) \div 10)
          ELSE analysis.credibility,
      contributedFindings |->
          [i \in 1..Len(analysis.keyPoints) |-> analysis.keyPoints[i].text] ]

\* Mutant of updateSources: the push is not guarded by the lookup.
updateSourcesUnguarded(sources, url, analysis) ==
    Append(sources, NewSource(url, analysis))

\* Mutant of updateSources: the list is rebuilt from the new source alone.
updateSourcesReplacing(sources, url, analysis) ==
    IF \E i \in 1..Len(sources) : sources[i].url = url
    THEN sources
    ELSE <<NewSource(url, analysis)>>

updateSources(sources, url, analysis) ==
    IF \E i \in 1..Len(sources) : sources[i].url = url
    THEN sources
    ELSE Append(sources, NewSource(url, analysis))

\* The (name, adjustedConfidence) pairs updateTopics merges for one analysis.
MergedTopics(analysis) ==
    { [name |-> analysis.topics[i].name,
       confidence |-> TopicAdjusted(analysis.topics[i])] : i \in 1..Len(analysis.topics) }

\* processFindings up to its first await: the three merges, in order.
MergeFindings(f, url, analysis) ==
    [ mainTopics  |-> updateTopics(f.mainTopics, analysis),
      keyInsights |-> updateInsights(f.keyInsights, analysis),
      sources     |-> updateSources(f.sources, url, analysis) ]

-----------------------------------------------------------------------------
(* ResearchSession: state machine *)

Calls == 1..NumCalls

IdleCall == [ pc |-> "idle", url |-> [path |-> "", ext |-> ""], result |-> "none",
              after |-> {}, timedOut |-> FALSE, ctx |-> 0 ]

Returned(c) == calls[c].pc = "returned"

\* The catch block of processUrl: log and return { searchResults: [] }.
ReturnEmpty(c) == [calls EXCEPT ![c].pc = "returned", ![c].result = "empty"]

\* The session as the constructor leaves it, for the options the caller gave.
\* The deep_research handler and the constructor both apply `|| default`.
InitSession ==
    /\ now = 0
    /\ \E t \in 1..MaxTime, m \in MinRelevanceChoices :
          options = [ timeout |-> t,
                      minRelevanceScore |->
                          OrDefault(OrDefault(m, DefaultMinRelevance), DefaultMinRelevance),
                      maxDepth |-> DefaultMaxDepth ]
    /\ status = "planning"
    /\ completedAt = "undefined"
    /\ visitedUrls = {}
    /\ progress = [processedContent |-> 0, visitedUrls |-> {}]
    /\ findings = [mainTopics |-> <<>>, keyInsights |-> <<>>, sources |-> <<>>]
    /\ browser = 0
    /\ context = 0
    /\ launched = 0
    /\ openBrowsers = {}
    /\ openContexts = {}
    /\ calls = [c \in Calls |-> IdleCall]
    /\ navigations = {}
    /\ completePc = [pc |-> "idle", closing |-> 0]
    /\ researchResult = NoResult
    /\ topicLog = {}

\* Wall-clock time passes between any two steps.
Tick ==
    /\ now < MaxTime
    /\ now' = now + 1
    /\ UNCHANGED <<options, status, completedAt, visitedUrls, progress, findings,
                   browser, context, launched, openBrowsers, openContexts, calls, navigations,
                   completePc>>
    /\ UNCHANGED <<researchResult, topicLog>>
    /\ UNCHANGED otherThanSession

\* processUrl(u) up to its first suspension: the visited guard, then
\* fetchContent's checkTimeout and isProcessableUrl tests, then
\* initializeBrowser, which awaits chromium.launch() when this.browser is still
\* null; with a browser already there, the context test and context.newPage().
ProcessUrlStart(c, u) ==
    /\ calls[c].pc = "idle"
    /\ LET started == [calls EXCEPT ![c].url = u,
                                    ![c].after = {d \in Calls : Returned(d)}]
       IN  calls' =
             IF u \in visitedUrls
             THEN [started EXCEPT ![c].pc = "returned", ![c].result = "empty"]
             ELSE IF TimedOut(now)
             THEN [started EXCEPT ![c].pc = "returned", ![c].result = "empty",
                                  ![c].timedOut = TRUE]
             ELSE IF ~isProcessableUrl(u)
             THEN [started EXCEPT ![c].pc = "returned", ![c].result = "empty"]
             ELSE IF browser = 0
             THEN [started EXCEPT ![c].pc = "launching"]
             ELSE IF context = 0
             THEN [started EXCEPT ![c].pc = "returned", ![c].result = "empty"]
             ELSE [started EXCEPT ![c].pc = "newPage", ![c].ctx = context]
    /\ UNCHANGED <<now, options, status, completedAt, visitedUrls, progress, findings,
                   browser, context, launched, openBrowsers, openContexts, navigations,
                   completePc>>
    /\ UNCHANGED <<researchResult, topicLog>>
    /\ UNCHANGED otherThanSession

\* initializeBrowser: chromium.launch() resolved; this.browser is assigned and
\* browser.newContext() is awaited.
LaunchResolved(c) ==
    /\ calls[c].pc = "launching"
    /\ launched' = launched + 1
    /\ browser' = launched + 1
    /\ openBrowsers' = openBrowsers \cup {launched + 1}
    /\ calls' = [calls EXCEPT ![c].pc = "newContext", ![c].ctx = launched + 1]
    /\ UNCHANGED <<now, options, status, completedAt, visitedUrls, progress, findings,
                   context, openContexts, navigations, completePc>>
    /\ UNCHANGED <<researchResult, topicLog>>
    /\ UNCHANGED otherThanSession

\* initializeBrowser: newContext() settled.  On a browser closed meanwhile it
\* rejects and processUrl's catch block returns; otherwise this.context is
\* assigned and fetchContent goes on to await context.newPage().
NewContextSettled(c) ==
    /\ calls[c].pc = "newContext"
    /\ IF calls[c].ctx \in openBrowsers
       THEN /\ context' = calls[c].ctx
            /\ openContexts' = openContexts \cup {calls[c].ctx}
            /\ calls' = [calls EXCEPT ![c].pc = "newPage"]
       ELSE /\ context' = context
            /\ openContexts' = openContexts
            /\ calls' = ReturnEmpty(c)
    /\ UNCHANGED <<now, options, status, completedAt, visitedUrls, progress, findings,
                   browser, launched, openBrowsers, navigations, completePc>>
    /\ UNCHANGED <<researchResult, topicLog>>
    /\ UNCHANGED otherThanSession

\* newPage() settled: it rejects on a closed context; otherwise page.goto(url)
\* begins now.
PageOpened(c) ==
    /\ calls[c].pc = "newPage"
    /\ IF calls[c].ctx \in openContexts
       THEN /\ navigations' = navigations \cup
                    {[call |-> c, url |-> calls[c].url, at |-> now]}
            /\ calls' = [calls EXCEPT ![c].pc = "goto"]
       ELSE /\ navigations' = navigations
            /\ calls' = ReturnEmpty(c)
    /\ UNCHANGED <<now, options, status, completedAt, visitedUrls, progress, findings,
                   browser, context, launched, openBrowsers, openContexts, completePc>>
    /\ UNCHANGED <<researchResult, topicLog>>
    /\ UNCHANGED otherThanSession

\* page.goto / page.content settled and the finally block's page.close()
\* resolved.  A navigation error is rethrown by fetchContent and caught by
\* processUrl.  Otherwise contentExtractor.extract runs: when it throws the
\* catch block returns, else the url is added to this.visitedUrls and
\* contentAnalyzer.analyze is awaited.
FetchSettled(c, outcome) ==
    /\ calls[c].pc = "goto"
    /\ IF outcome = "ok"
       THEN /\ visitedUrls' = visitedUrls \cup {calls[c].url}
            /\ calls' = [calls EXCEPT ![c].pc = "analyzing"]
       ELSE /\ visitedUrls' = visitedUrls
            /\ calls' = ReturnEmpty(c)
    /\ UNCHANGED <<now, options, status, completedAt, progress, findings,
                   browser, context, launched, openBrowsers, openContexts, navigations,
                   completePc>>
    /\ UNCHANGED <<researchResult, topicLog>>
    /\ UNCHANGED otherThanSession

\* analyze rejected: the catch block returns the empty result.
AnalyzeFailed(c) ==
    /\ calls[c].pc = "analyzing"
    /\ calls' = ReturnEmpty(c)
    /\ UNCHANGED <<now, options, status, completedAt, visitedUrls, progress, findings,
                   browser, context, launched, openBrowsers, openContexts, navigations, completePc>>
    /\ UNCHANGED <<researchResult, topicLog>>
    /\ UNCHANGED otherThanSession

\* analyze resolved with `a`: the progress update and processFindings up to its
\* await of processRelatedUrls (depth 0 < maxDepth) run without suspension.
AnalyzeResolved(c, a) ==
    /\ calls[c].pc = "analyzing"
    /\ progress' = [ processedContent |-> progress.processedContent + 1,
                     visitedUrls |-> progress.visitedUrls \cup {calls[c].url} ]
    /\ findings' = MergeFindings(findings, calls[c].url, a)
    /\ calls' = [calls EXCEPT ![c].pc = "related"]
    /\ UNCHANGED <<now, options, status, completedAt, visitedUrls,
                   browser, context, launched, openBrowsers, openContexts, navigations, completePc>>
    /\ UNCHANGED researchResult
    /\ topicLog' = topicLog \cup MergedTopics(a)
    /\ UNCHANGED otherThanSession

\* processFindings resolved: processUrl returns its result.
ProcessUrlReturn(c) ==
    /\ calls[c].pc = "related"
    /\ calls' = [calls EXCEPT ![c].pc = "returned", ![c].result = "full"]
    /\ UNCHANGED <<now, options, status, completedAt, visitedUrls, progress, findings,
                   browser, context, launched, openBrowsers, openContexts, navigations, completePc>>
    /\ UNCHANGED <<researchResult, topicLog>>
    /\ UNCHANGED otherThanSession

TimestampUnset == "undefined"

\* new Date().toISOString()
TimestampNow == "set"

\* complete() up to its first await: status and timestamp.completed are set,
\* then the context (if any) or the browser (if any) is being closed.
CompleteStart ==
    /\ completePc.pc = "idle"
    /\ status' = "completed"
    /\ completedAt' = TimestampNow
    /\ completePc' = IF context # 0 THEN [pc |-> "closingContext", closing |-> context]
                     ELSE IF browser # 0 THEN [pc |-> "closingBrowser", closing |-> browser]
                     ELSE [pc |-> "done", closing |-> 0]
    /\ UNCHANGED <<now, options, visitedUrls, progress, findings,
                   browser, context, launched, openBrowsers, openContexts, calls, navigations>>
    /\ UNCHANGED <<researchResult, topicLog>>
    /\ UNCHANGED otherThanSession

\* context.close() resolved: this.context = null, then the browser, if any.
CompleteContextClosed ==
    /\ completePc.pc = "closingContext"
    /\ context' = 0
    /\ openContexts' = openContexts \ {completePc.closing}
    /\ completePc' = IF browser # 0 THEN [pc |-> "closingBrowser", closing |-> browser]
                     ELSE [pc |-> "done", closing |-> 0]
    /\ UNCHANGED <<now, options, status, completedAt, visitedUrls, progress, findings,
                   browser, launched, openBrowsers, calls, navigations>>
    /\ UNCHANGED <<researchResult, topicLog>>
    /\ UNCHANGED otherThanSession

\* browser.close() resolved: this.browser = null.
CompleteBrowserClosed ==
    /\ completePc.pc = "closingBrowser"
    /\ openBrowsers' = openBrowsers \ {completePc.closing}
    /\ openContexts' = openContexts \ {completePc.closing}
    /\ browser' = 0
    /\ completePc' = [pc |-> "done", closing |-> 0]
    /\ UNCHANGED <<now, options, status, completedAt, visitedUrls, progress, findings,
                   context, launched, calls, navigations>>
    /\ UNCHANGED <<researchResult, topicLog>>
    /\ UNCHANGED otherThanSession

formatResultsWithoutSources(f) ==
    [returned |-> TRUE,
     mainTopics |-> [i \in 1..Len(f.mainTopics) |->
                       [name |-> f.mainTopics[i].name,
                        importance |-> f.mainTopics[i].importance]],
     keyInsights |-> [i \in 1..Len(f.keyInsights) |->
                        [text |-> f.keyInsights[i].text,
                         confidence |-> f.keyInsights[i].confidence]],
     sources |-> <<>>]

\* DeepResearch.formatResults: the findings part of the result.
formatResults(f) ==
    [returned |-> TRUE,
     mainTopics |-> [i \in 1..Len(f.mainTopics) |->
                       [name |-> f.mainTopics[i].name,
                        importance |-> f.mainTopics[i].importance]],
     keyInsights |-> [i \in 1..Len(f.keyInsights) |->
                        [text |-> f.keyInsights[i].text,
                         confidence |-> f.keyInsights[i].confidence]],
     sources |-> [i \in 1..Len(f.sources) |->
                    [url |-> f.sources[i].url,
                     credibilityScore |-> f.sources[i].credibilityScore]]]

\* startResearch after `await session.complete()`: it formats the session's
\* findings and returns them.  The processUrl calls it made have all returned
\* by then (both Promise.all were awaited before complete()).
StartResearchReturn ==
    /\ completePc.pc = "done"
    /\ \A c \in Calls : calls[c].pc \in {"idle", "returned"}
    /\ ~researchResult.returned
    /\ researchResult' = formatResults(findings)
    /\ UNCHANGED <<now, options, status, completedAt, visitedUrls, progress, findings,
                   browser, context, launched, openBrowsers, openContexts, calls,
                   navigations, completePc, topicLog>>
    /\ UNCHANGED otherThanSession

-----------------------------------------------------------------------------
(* ParallelSearch: pure parts *)

Invocations == DOMAIN invocations

\* The query list of an invocation: n pairwise distinct queries, named by
\* their position.
QueryList(n) == [j \in 1..n |-> j]

\* How one search can end once its page is open: with results, or with an
\* error that singleSearch's catch block turns into an entry.  "page error"
\* stands for every rejection or throw before the extraction (page.goto, the
\* search input not found, waitForSelector's timeout): all take the same path.
SearchOutcomes == {"results", "page error", "No search results found"}

\* getSearchResult: the entry singleSearch returns for a query.
getSearchResult(query, outcome) ==
    IF outcome = "results"
    THEN [query |-> query, results |-> <<"r">>, error |-> ""]
    ELSE [query |-> query, results |-> <<>>, error |-> outcome]

NoEntry == [query |-> 0, results |-> <<>>, error |-> ""]

\* queries.slice(start, start + maxParallel), start counted from 0.
Chunk(queries, start) ==
    SubSeq(queries, start + 1, Min(Len(queries), start + maxParallel))

\* this.contexts[index % this.contexts.length], index counted from 0; 0 stands
\* for `undefined` (an empty pool).
AssignedContext(index) ==
    IF contexts = <<>> THEN 0 ELSE contexts[(index % Len(contexts)) + 1]

\* The tasks of a chunk as chunk.map creates them: each waits for its stagger
\* timer.
NewTasks(chunk) ==
    [k \in 1..Len(chunk) |->
        [pc |-> "timer", query |-> chunk[k], ctx |-> 0, outcome |-> "", entry |-> NoEntry]]

\* Mutant of ChunkResults: entries appended as the searches complete
\* (inv.order lists the queries, by position in the input, as they resolved).
ChunkResultsByCompletion(inv) ==
    [k \in 1..Len(inv.tasks) |-> inv.tasks[inv.order[inv.start + k] - inv.start].entry]

\* await Promise.all(chunkPromises): the entries by position in the chunk.
ChunkResults(inv) ==
    [k \in 1..Len(inv.tasks) |-> inv.tasks[k].entry]

SummaryCountingEveryEntry(queries, results) ==
    [ totalQueries |-> Len(queries),
      successful |-> Len(results),
      failed |-> Cardinality({k \in 1..Len(results) : results[k].error # ""}) ]

\* The summary parallelSearch returns.
Summary(queries, results) ==
    [ totalQueries |-> Len(queries),
      successful |-> Cardinality({k \in 1..Len(results) : results[k].error = ""}),
      failed |-> Cardinality({k \in 1..Len(results) : results[k].error # ""}) ]

NoSummary == [totalQueries |-> 0, successful |-> 0, failed |-> 0]

IdleInvocation ==
    [ pc |-> "idle", queries |-> <<>>, start |-> 0, tasks |-> <<>>, order |-> <<>>,
      results |-> <<>>, summary |-> NoSummary, launchedBrowser |-> 0, made |-> 0 ]

\* A context is usable until cleanup() closed it or its browser.
ContextOpen(x) == x \notin closedContexts /\ x.browser \notin closedBrowsers

\* parallelSearch after `await this.initialize()`: the chunks are cut and the
\* first chunk's tasks are created; with no query the summary is returned.
EnterChunks(inv) ==
    IF inv.queries = <<>>
    THEN [inv EXCEPT !.pc = "returned", !.summary = Summary(inv.queries, <<>>),
                     !.launchedBrowser = 0, !.made = 0]
    ELSE [inv EXCEPT !.pc = "chunk", !.start = 0,
                     !.tasks = NewTasks(Chunk(inv.queries, 0)),
                     !.launchedBrowser = 0, !.made = 0]

-----------------------------------------------------------------------------
(* ParallelSearch: state machine *)

\* A new ParallelSearch instance, and `count` parallelSearch calls to come.
InitDispatcher(count) ==
    /\ maxParallel \in 1..MaxPool
    /\ psBrowser = 0
    /\ contexts = <<>>
    /\ psLaunched = 0
    /\ closedBrowsers = {}
    /\ closedContexts = {}
    /\ invocations = [i \in 1..count |-> IdleInvocation]
    /\ cleanupPc = [pc |-> "idle", index |-> 0, closing |-> 0]

\* parallelSearch(queries) up to its first suspension: initialize() awaits
\* chromium.launch() when this.browser is null, else returns at once.
ParallelSearchStart(i, n) ==
    /\ invocations[i].pc = "idle"
    /\ LET inv == [invocations[i] EXCEPT !.queries = QueryList(n)]
       IN  invocations' =
             [invocations EXCEPT ![i] =
                 IF psBrowser = 0
                 THEN [inv EXCEPT !.pc = "launching"]
                 ELSE EnterChunks(inv)]
    /\ UNCHANGED <<maxParallel, psBrowser, contexts, psLaunched, closedBrowsers,
                   closedContexts, cleanupPc>>
    /\ UNCHANGED otherThanDispatcher

\* initialize: chromium.launch() resolved; this.browser is assigned and the
\* first browser.newContext() of the loop is awaited.
InitLaunchResolved(i) ==
    /\ invocations[i].pc = "launching"
    /\ psLaunched' = psLaunched + 1
    /\ psBrowser' = psLaunched + 1
    /\ invocations' = [invocations EXCEPT ![i].pc = "creating",
                                          ![i].launchedBrowser = psLaunched + 1,
                                          ![i].made = 0]
    /\ UNCHANGED <<maxParallel, contexts, closedBrowsers, closedContexts, cleanupPc>>
    /\ UNCHANGED otherThanDispatcher

\* initialize: a newContext() settled.  On a browser closed meanwhile it
\* rejects and parallelSearch rejects.  Otherwise the context is pushed; after
\* maxParallel contexts initialize returns and the first chunk starts.
InitContextSettled(i) ==
    /\ invocations[i].pc = "creating"
    /\ LET inv == invocations[i]
           x == [browser |-> inv.launchedBrowser, n |-> inv.made + 1]
       IN  IF inv.launchedBrowser \in closedBrowsers
           THEN /\ contexts' = contexts
                /\ invocations' = [invocations EXCEPT ![i].pc = "rejected"]
           ELSE /\ contexts' = Append(contexts, x)
                /\ invocations' =
                     [invocations EXCEPT ![i] =
                         IF inv.made + 1 < maxParallel
                         THEN [inv EXCEPT !.made = inv.made + 1]
                         ELSE EnterChunks([inv EXCEPT !.made = inv.made + 1])]
    /\ UNCHANGED <<maxParallel, psBrowser, psLaunched, closedBrowsers, closedContexts,
                   cleanupPc>>
    /\ UNCHANGED otherThanDispatcher

\* The stagger timer of task k fired (the timers fire by increasing delay
\* index * delayBetweenSearches, so in index order): singleSearch is called with the context
\* the pool holds at this moment and awaits context.newPage().  With an empty
\* pool the context is undefined, newPage throws, singleSearch rejects and the
\* task's promise is never resolved.
TaskTimerFired(i, k) ==
    /\ invocations[i].pc = "chunk"
    /\ k \in 1..Len(invocations[i].tasks)
    /\ invocations[i].tasks[k].pc = "timer"
    /\ \A j \in 1..(k - 1) : invocations[i].tasks[j].pc # "timer"
    /\ LET x == AssignedContext(k - 1)
       IN  invocations' =
             IF contexts = <<>>
             THEN [invocations EXCEPT ![i].tasks[k].pc = "hung"]
             ELSE [invocations EXCEPT ![i].tasks[k].pc = "opening",
                                      ![i].tasks[k].ctx = x]
    /\ UNCHANGED <<maxParallel, psBrowser, contexts, psLaunched, closedBrowsers,
                   closedContexts, cleanupPc>>
    /\ UNCHANGED otherThanDispatcher

\* context.newPage() settled.  It is awaited outside singleSearch's try block:
\* when it rejects (closed context, browser failure) singleSearch rejects and
\* the task's promise is never resolved.  Otherwise the search runs.
TaskPageSettled(i, k, ok) ==
    /\ invocations[i].pc = "chunk"
    /\ k \in 1..Len(invocations[i].tasks)
    /\ invocations[i].tasks[k].pc = "opening"
    /\ ok => ContextOpen(invocations[i].tasks[k].ctx)
    /\ invocations' = [invocations EXCEPT ![i].tasks[k].pc =
                          IF ok THEN "searching" ELSE "hung"]
    /\ UNCHANGED <<maxParallel, psBrowser, contexts, psLaunched, closedBrowsers,
                   closedContexts, cleanupPc>>
    /\ UNCHANGED otherThanDispatcher

\* The steps on the open page settled with `outcome` (results saved, or an
\* error caught by the catch block); the finally block awaits page.close().
TaskSearchSettled(i, k, outcome) ==
    /\ invocations[i].pc = "chunk"
    /\ k \in 1..Len(invocations[i].tasks)
    /\ invocations[i].tasks[k].pc = "searching"
    /\ invocations' = [invocations EXCEPT ![i].tasks[k].pc = "closing",
                                          ![i].tasks[k].outcome = outcome]
    /\ UNCHANGED <<maxParallel, psBrowser, contexts, psLaunched, closedBrowsers,
                   closedContexts, cleanupPc>>
    /\ UNCHANGED otherThanDispatcher

\* page.close() resolved: singleSearch returns its entry and the task's
\* promise is resolved with it.
TaskResolved(i, k) ==
    /\ invocations[i].pc = "chunk"
    /\ k \in 1..Len(invocations[i].tasks)
    /\ invocations[i].tasks[k].pc = "closing"
    /\ LET t == invocations[i].tasks[k]
       IN  invocations' =
             [invocations EXCEPT ![i].tasks[k].pc = "resolved",
                                 ![i].tasks[k].ctx = 0,
                                 ![i].tasks[k].outcome = "",
                                 ![i].tasks[k].entry = getSearchResult(t.query, t.outcome),
                                 ![i].order = Append(@, invocations[i].start + k)]
    /\ UNCHANGED <<maxParallel, psBrowser, contexts, psLaunched, closedBrowsers,
                   closedContexts, cleanupPc>>
    /\ UNCHANGED otherThanDispatcher

\* Promise.all(chunkPromises) resolved: the chunk's entries are pushed; then
\* the inter-chunk delay, or the summary and the return.
ChunkJoined(i) ==
    /\ invocations[i].pc = "chunk"
    /\ \A k \in 1..Len(invocations[i].tasks) : invocations[i].tasks[k].pc = "resolved"
    /\ LET inv == invocations[i]
           res == inv.results \o ChunkResults(inv)
       IN  invocations' =
             [invocations EXCEPT ![i] =
                 IF inv.start + maxParallel < Len(inv.queries)
                 THEN [inv EXCEPT !.pc = "pause", !.results = res, !.tasks = <<>>]
                 ELSE [inv EXCEPT !.pc = "returned", !.results = res, !.tasks = <<>>,
                                  !.summary = Summary(inv.queries, res)]]
    /\ UNCHANGED <<maxParallel, psBrowser, contexts, psLaunched, closedBrowsers,
                   closedContexts, cleanupPc>>
    /\ UNCHANGED otherThanDispatcher

\* The inter-chunk delay elapsed: the next chunk's tasks are created.
NextChunk(i) ==
    /\ invocations[i].pc = "pause"
    /\ LET inv == invocations[i]
       IN  invocations' =
             [invocations EXCEPT ![i] =
                 [inv EXCEPT !.pc = "chunk", !.start = inv.start + maxParallel,
                             !.tasks = NewTasks(Chunk(inv.queries, inv.start + maxParallel))]]
    /\ UNCHANGED <<maxParallel, psBrowser, contexts, psLaunched, closedBrowsers,
                   closedContexts, cleanupPc>>
    /\ UNCHANGED otherThanDispatcher

\* cleanup() up to its first suspension, called from startResearch's finally
\* block once that run's own parallelSearch has settled: the first context of
\* the pool is being closed; with an empty pool, the browser, if any.
CleanupStart ==
    /\ cleanupPc.pc = "idle"
    /\ \E i \in Invocations : invocations[i].pc \in {"returned", "rejected"}
    /\ IF contexts # <<>>
       THEN /\ cleanupPc' = [pc |-> "closingContext", index |-> 1, closing |-> 0]
            /\ UNCHANGED contexts
       ELSE /\ contexts' = <<>>
            /\ cleanupPc' = IF psBrowser # 0
                            THEN [pc |-> "closingBrowser", index |-> 0, closing |-> psBrowser]
                            ELSE [pc |-> "done", index |-> 0, closing |-> 0]
    /\ UNCHANGED <<maxParallel, psBrowser, psLaunched, closedBrowsers, closedContexts,
                   invocations>>
    /\ UNCHANGED otherThanDispatcher

\* cleanup: a context.close() resolved; the loop goes on over the live array,
\* then this.contexts = [] and the browser, if any, is being closed.
CleanupContextClosed ==
    /\ cleanupPc.pc = "closingContext"
    /\ closedContexts' = closedContexts \cup {contexts[cleanupPc.index]}
    /\ IF cleanupPc.index < Len(contexts)
       THEN /\ cleanupPc' = [cleanupPc EXCEPT !.index = @ + 1]
            /\ UNCHANGED contexts
       ELSE /\ contexts' = <<>>
            /\ cleanupPc' = IF psBrowser # 0
                            THEN [pc |-> "closingBrowser", index |-> 0, closing |-> psBrowser]
                            ELSE [pc |-> "done", index |-> 0, closing |-> 0]
    /\ UNCHANGED <<maxParallel, psBrowser, psLaunched, closedBrowsers, invocations>>
    /\ UNCHANGED otherThanDispatcher

\* cleanup: browser.close() resolved; this.browser = null.
CleanupBrowserClosed ==
    /\ cleanupPc.pc = "closingBrowser"
    /\ closedBrowsers' = closedBrowsers \cup {cleanupPc.closing}
    /\ psBrowser' = 0
    /\ cleanupPc' = [pc |-> "done", index |-> 0, closing |-> 0]
    /\ UNCHANGED <<maxParallel, contexts, psLaunched, closedContexts, invocations>>
    /\ UNCHANGED otherThanDispatcher

\* The steps of the searches in flight, of the chunk loop and of cleanup.
DispatcherStep ==
    \/ \E i \in Invocations : InitLaunchResolved(i)
    \/ \E i \in Invocations : InitContextSettled(i)
    \/ \E i \in Invocations, k \in 1..MaxPool : TaskTimerFired(i, k)
    \/ \E i \in Invocations, k \in 1..MaxPool, ok \in BOOLEAN : TaskPageSettled(i, k, ok)
    \/ \E i \in Invocations, k \in 1..MaxPool, o \in SearchOutcomes : TaskSearchSettled(i, k, o)
    \/ \E i \in Invocations, k \in 1..MaxPool : TaskResolved(i, k)
    \/ \E i \in Invocations : ChunkJoined(i)
    \/ \E i \in Invocations : NextChunk(i)
    \/ CleanupStart
    \/ CleanupContextClosed
    \/ CleanupBrowserClosed

NextDispatcher ==
    \/ \E i \in Invocations, n \in 0..MaxQueries : ParallelSearchStart(i, n)
    \/ DispatcherStep

NextSharedDispatcher ==
    \/ \E i \in Invocations, n \in 0..MaxSharedQueries : ParallelSearchStart(i, n)
    \/ DispatcherStep

NextSession ==
    \/ Tick
    \/ \E c \in Calls, u \in Urls : ProcessUrlStart(c, u)
    \/ \E c \in Calls : LaunchResolved(c)
    \/ \E c \in Calls : NewContextSettled(c)
    \/ \E c \in Calls : PageOpened(c)
    \/ \E c \in Calls, o \in FetchOutcomes : FetchSettled(c, o)
    \/ \E c \in Calls : AnalyzeFailed(c)
    \/ \E c \in Calls, a \in AnalysisChoices : AnalyzeResolved(c, a)
    \/ \E c \in Calls : ProcessUrlReturn(c)
    \/ CompleteStart
    \/ CompleteContextClosed
    \/ CompleteBrowserClosed
    \/ StartResearchReturn

\* A ResearchSession driven by any caller: processUrl invocations, overlapping
\* or successive, on any urls, and one complete().
InitSessionSpec == InitSession /\ IdleExceptSession

SpecSession == InitSessionSpec /\ [][NextSession]_vars

-----------------------------------------------------------------------------
(* ResearchSession: properties *)

\* Number of page.goto calls begun by invocation c.
Fetches(c) == Cardinality({n \in navigations : n.call = c})

\* c2 was invoked after c1 had returned, with the same url.
Successive(c1, c2) ==
    /\ c1 # c2
    /\ calls[c2].pc # "idle"
    /\ c1 \in calls[c2].after
    /\ calls[c1].url = calls[c2].url

\* c1 and c2 were in flight at the same time.
Overlapping(c1, c2) ==
    /\ c1 # c2
    /\ calls[c1].pc # "idle" /\ calls[c2].pc # "idle"
    /\ c1 \notin calls[c2].after
    /\ c2 \notin calls[c1].after

Count(x, s) == Cardinality({i \in 1..Len(s) : s[i] = x})

\* C1 (as claimed): of two successive processUrl(u) calls the second one never
\* fetches and returns the empty result, whatever the outcome of the first.
C1_SecondCallIsNoOp ==
    \A c1, c2 \in Calls :
        Successive(c1, c2) =>
            /\ Fetches(c2) = 0
            /\ Fetches(c1) + Fetches(c2) <= 1
            /\ calls[c2].result # "full"

\* C2 (as claimed): no page.goto begins once the elapsed time has reached the
\* configured timeout.
C2_NoFetchAfterTimeout ==
    \A n \in navigations : n.at - 0 < options.timeout

\* C3 (as claimed): a session in which checkTimeout found the budget exceeded
\* does not end with status `completed`.
C3_TimedOutNeverCompleted ==
    (\E c \in Calls : calls[c].timedOut) => status # "completed"

\* C8: no step removes a visited url, a source, a topic or a key insight; a
\* topic that stays may only gain importance.
C8_FindingsOnlyGrow ==
    [][ /\ visitedUrls \subseteq visitedUrls'
        /\ progress.visitedUrls \subseteq progress'.visitedUrls
        /\ Len(findings.sources) <= Len(findings'.sources)
        /\ \A i \in 1..Len(findings.sources) :
              findings'.sources[i] = findings.sources[i]
        /\ \A i \in 1..Len(findings.mainTopics) :
              \E j \in 1..Len(findings'.mainTopics) :
                  /\ findings'.mainTopics[j].name = findings.mainTopics[i].name
                  /\ findings'.mainTopics[j].importance >= findings.mainTopics[i].importance
        /\ \A i \in 1..Len(findings.keyInsights) :
              Count(findings.keyInsights[i], findings.keyInsights)
                  <= Count(findings.keyInsights[i], findings'.keyInsights)
      ]_vars

\* C8 witness: a second page was merged into findings that already held a
\* source, topics and an insight.
C8_Witness ==
    /\ progress.processedContent >= 2
    /\ Len(findings.sources) >= 2
    /\ Len(findings.mainTopics) >= 2
    /\ Len(findings.keyInsights) >= 2

\* C9: findings.sources holds at most one Source per url.
C9_OneSourcePerUrl ==
    \A i, j \in 1..Len(findings.sources) :
        i # j => findings.sources[i].url # findings.sources[j].url

\* C9 witness: two overlapping processUrl calls for one url have both merged
\* their findings.
C9_Witness ==
    \E c1, c2 \in Calls :
        /\ Overlapping(c1, c2)
        /\ calls[c1].url = calls[c2].url
        /\ calls[c1].pc \in {"related", "returned"}
        /\ calls[c2].pc \in {"related", "returned"}
        /\ calls[c1].result # "empty" /\ calls[c2].result # "empty"
        /\ progress.processedContent = 2

\* C10: every key insight held was admitted with an adjusted confidence at or
\* above the session's minRelevanceScore.
C10_InsightsMeetThreshold ==
    \A i \in 1..Len(findings.keyInsights) :
        findings.keyInsights[i].adjusted >= options.minRelevanceScore

\* C10 witness: the caller passed 0 (the session then uses the default); one
\* page contributed key point k2, which was rejected, and k3, which was kept.
C10_Witness ==
    /\ options.minRelevanceScore = DefaultMinRelevance
    /\ \E i \in 1..Len(findings.sources) :
          "k2" \in Range(findings.sources[i].contributedFindings)
    /\ \A i \in 1..Len(findings.keyInsights) : findings.keyInsights[i].text # "k2"
    /\ \E i \in 1..Len(findings.keyInsights) : findings.keyInsights[i].text = "k3"

-----------------------------------------------------------------------------
(* Specifications *)

InitDispatcherSpec == InitDispatcher(1) /\ IdleExceptDispatcher

\* One parallelSearch call on a new ParallelSearch instance, then cleanup(),
\* as in one startResearch run.
SpecDispatcher == InitDispatcherSpec /\ [][NextDispatcher]_vars

InitSharedDispatcherSpec ==
    InitDispatcher(NumInvocations) /\ IdleExceptDispatcher

\* One ParallelSearch instance shared by the tool handlers (deep_research,
\* parallel_search): parallelSearch calls, overlapping or successive, and the
\* cleanup() of a finished startResearch run.
SpecSharedDispatcher == InitSharedDispatcherSpec /\ [][NextSharedDispatcher]_vars

-----------------------------------------------------------------------------
(* ParallelSearch: properties *)

\* The searches in flight: singleSearch was called and has not returned.
InFlight == { <<i, k>> \in Invocations \X (1..MaxPool) :
                /\ k <= Len(invocations[i].tasks)
                /\ invocations[i].tasks[k].pc \in {"opening", "searching", "closing"} }

\* C4: a parallelSearch call that returns gives one entry per query, in the
\* order of the queries.
C4_OrderPreserved ==
    \A i \in Invocations :
        invocations[i].pc = "returned" =>
            /\ Len(invocations[i].results) = Len(invocations[i].queries)
            /\ \A k \in 1..Len(invocations[i].queries) :
                  invocations[i].results[k].query = invocations[i].queries[k]

\* C4 witness: a call over several chunks returned, and two searches of one
\* chunk completed in the reverse of their input order.
C4_Witness ==
    \E i \in Invocations :
        /\ invocations[i].pc = "returned"
        /\ Len(invocations[i].queries) > maxParallel
        /\ \E k \in 1..(Len(invocations[i].order) - 1) :
              invocations[i].order[k] > invocations[i].order[k + 1]

\* C5 (as claimed): a query that fails at any step, including the opening of
\* its page, still settles with an entry of its own, and an entry with no
\* results carries an error message.
C5_EveryFailureReported ==
    \A i \in Invocations :
        \A k \in 1..Len(invocations[i].tasks) :
            /\ invocations[i].tasks[k].pc # "hung"
            /\ (invocations[i].tasks[k].pc = "resolved"
                  /\ invocations[i].tasks[k].entry.results = <<>>)
                 => invocations[i].tasks[k].entry.error # ""

\* C6 (as claimed): no browser context is used by two searches in flight.
C6_ContextNeverShared ==
    \A s, t \in InFlight :
        s # t => invocations[s[1]].tasks[s[2]].ctx # invocations[t[1]].tasks[t[2]].ctx

-----------------------------------------------------------------------------
(* DeepResearch.normalizeUrl and deduplicateResults *)

\* A string is a sequence of one-character strings.
UpperCase == <<"A", "B", "C", "D", "E", "F", "G", "H", "I", "J", "K", "L", "M", "N", "O", "P", "Q", "R", "S", "T", "U", "V", "W", "X", "Y", "Z">>

LowerCase == <<"a", "b", "c", "d", "e", "f", "g", "h", "i", "j", "k", "l", "m", "n", "o", "p", "q", "r", "s", "t", "u", "v", "w", "x", "y", "z">>

\* String.prototype.toLowerCase, one character.
LowerChar(c) ==
    IF \E i \in 1..Len(UpperCase) : UpperCase[i] = c
    THEN LowerCase[CHOOSE i \in 1..Len(UpperCase) : UpperCase[i] = c]
    ELSE c

toLowerCase(s) == [i \in 1..Len(s) |-> LowerChar(s[i])]

StartsWith(s, prefix) ==
    /\ Len(s) >= Len(prefix)
    /\ SubSeq(s, 1, Len(prefix)) = prefix

\* .replace(/^https?:\/\//, ''): the pattern has no i flag.
ReplaceProtocol(s) ==
    IF StartsWith(s, <<"h", "t", "t", "p", ":", "/", "/">>) THEN SubSeq(s, 8, Len(s))
    ELSE IF StartsWith(s, <<"h", "t", "t", "p", "s", ":", "/", "/">>) THEN SubSeq(s, 9, Len(s))
    ELSE s

\* .replace(/^www\./, ''): the pattern has no i flag.
ReplaceWww(s) ==
    IF StartsWith(s, <<"w", "w", "w", ".">>) THEN SubSeq(s, 5, Len(s)) ELSE s

\* .replace(/\/$/, ''): one slash at the very end of the string.
ReplaceTrailingSlash(s) ==
    IF Len(s) > 0 /\ s[Len(s)] = "/" THEN SubSeq(s, 1, Len(s) - 1) ELSE s

\* .split(sep)[0]: the part before the first separator, all of s without one.
SplitFirst(s, sep) ==
    LET at == {i \in 1..Len(s) : s[i] = sep}
    IN  IF at = {} THEN s
        ELSE SubSeq(s, 1, (CHOOSE i \in at : \A j \in at : i <= j) - 1)

normalizeUrl(url) ==
    toLowerCase(
        SplitFirst(
            SplitFirst(ReplaceTrailingSlash(ReplaceWww(ReplaceProtocol(url))), "?"),
            "#"))

\* The set `seen` after the elements kept so far.
Seen(kept) == {normalizeUrl(kept[j].url) : j \in 1..Len(kept)}

\* One call of the filter callback of deduplicateResults on `result`, with
\* `kept` kept so far.
FilterOne(kept, result) ==
    IF normalizeUrl(result.url) \in Seen(kept) THEN kept ELSE Append(kept, result)

\* The URLs of the search results given to deduplicateResults: a protocol, an
\* optional www. prefix in either case, a host, a path with or without a
\* trailing slash, an optional query string and an optional fragment.
Protocols == {<<"h", "t", "t", "p", ":", "/", "/">>, <<"h", "t", "t", "p", "s", ":", "/", "/">>}

WwwPrefixes == {<<>>, <<"w", "w", "w", ".">>, <<"W", "w", "w", ".">>}

Hosts == {<<"e", "x", "a", "m", "p", "l", "e", ".", "c", "o", "m">>, <<"E", "x", "a", "m", "p", "l", "e", ".", "c", "o", "m">>}

Paths == {<<"/", "a">>, <<"/", "a", "/">>}

QueryStrings == {<<>>, <<"?", "x", "=", "1">>}

Fragments == {<<>>, <<"#", "y">>}

ResultUrls ==
    {p \o w \o h \o a \o q \o f :
        p \in Protocols, w \in WwwPrefixes, h \in Hosts, a \in Paths,
        q \in QueryStrings, f \in Fragments}

\* A search result; title and snippet play no part in the deduplication.
SearchResults == [url : ResultUrls]

ResultLists == UNION {[1..n -> SearchResults] : n \in 0..MaxResults}

\* deduplicateResults is called with a list of search results.
InitNormalize ==
    /\ nuResults \in ResultLists
    /\ nuUnique = <<>>
    /\ nuPc = [pc |-> "filtering", index |-> 1]

\* The filter callback runs on the next element.
FilterStep ==
    /\ nuPc.pc = "filtering"
    /\ nuPc.index <= Len(nuResults)
    /\ nuUnique' = FilterOne(nuUnique, nuResults[nuPc.index])
    /\ nuPc' = [nuPc EXCEPT !.index = @ + 1]
    /\ UNCHANGED nuResults
    /\ UNCHANGED otherThanNormalize

\* filter() has visited every element and returns the kept ones.
FilterReturn ==
    /\ nuPc.pc = "filtering"
    /\ nuPc.index > Len(nuResults)
    /\ nuPc' = [nuPc EXCEPT !.pc = "returned"]
    /\ UNCHANGED <<nuResults, nuUnique>>
    /\ UNCHANGED otherThanNormalize

NextNormalize == FilterStep \/ FilterReturn

InitNormalizeSpec == InitNormalize /\ IdleExceptNormalize

SpecNormalize == InitNormalizeSpec /\ [][NextNormalize]_vars

-----------------------------------------------------------------------------
(* normalizeUrl: properties *)

\* What the two URLs of a pair have in common when they differ only in
\* protocol, www. prefix, trailing slash, query string, fragment and letter
\* case: the lower-cased host and path.
HostAndPath(url) ==
    LET lower == toLowerCase(url)
        noProtocol == ReplaceProtocol(lower)
        noWww == ReplaceWww(noProtocol)
        noQuery == SplitFirst(SplitFirst(noWww, "?"), "#")
    IN  ReplaceTrailingSlash(noQuery)

ExampleLong == <<"h", "t", "t", "p", "s", ":", "/", "/", "W", "w", "w", ".", "E", "x", "a", "m", "p", "l", "e", ".", "c", "o", "m", "/", "a", "/", "?", "x", "=", "1", "#", "y">>

ExampleShort == <<"h", "t", "t", "p", ":", "/", "/", "e", "x", "a", "m", "p", "l", "e", ".", "c", "o", "m", "/", "a">>

\* C7 (as claimed): two results whose URLs differ only in protocol, www.
\* prefix, trailing slash, query string, fragment or letter case have the same
\* key, so the returned list keeps at most one of them.
C7_VariantsShareKey ==
    nuPc.pc = "returned" =>
        \A i, j \in 1..Len(nuUnique) :
            (i # j) => HostAndPath(nuUnique[i].url) # HostAndPath(nuUnique[j].url)

\* C7, the example: the returned list never holds both example URLs.
C7_ExampleDeduplicated ==
    nuPc.pc = "returned" =>
        ~ ({[url |-> ExampleLong], [url |-> ExampleShort]} \subseteq Range(nuUnique))

-----------------------------------------------------------------------------
(* ContentAnalyzer: extractKeyPoints, calculateSentenceImportance and       *)
(* deduplicateKeyPoints (src/unnamed/part_003)                               *)

DefaultMaxKeyPoints == 15

DefaultMinImportance == 250

Digits == {"0", "1", "2", "3", "4", "5", "6", "7", "8", "9"}

\* \w of a regular expression.
IsWordChar(c) == c \in Range(UpperCase) \cup Range(LowerCase) \cup Digits \cup {"_"}

\* \s of a regular expression (the texts here hold spaces only).
IsSpace(c) == c = " "

\* .replace(/\s+/g, ' '): every run of whitespace becomes one space.
RECURSIVE CollapseSpaces(_)
CollapseSpaces(s) ==
    IF Len(s) < 2 THEN s
    ELSE IF IsSpace(s[1]) /\ IsSpace(s[2]) THEN CollapseSpaces(Tail(s))
    ELSE <<s[1]>> \o CollapseSpaces(Tail(s))

\* .replace(/[^\w\s]/g, ''): every character that is neither is removed.
StripPunctuation(s) ==
    LET Keep(c) == IsWordChar(c) \/ IsSpace(c) IN SelectSeq(s, Keep)

RECURSIVE TrimStart(_)
TrimStart(s) == IF Len(s) > 0 /\ IsSpace(s[1]) THEN TrimStart(Tail(s)) ELSE s

RECURSIVE TrimEnd(_)
TrimEnd(s) ==
    IF Len(s) > 0 /\ IsSpace(s[Len(s)]) THEN TrimEnd(SubSeq(s, 1, Len(s) - 1)) ELSE s

trim(s) == TrimEnd(TrimStart(s))

normalizeText(text) == trim(StripPunctuation(CollapseSpaces(toLowerCase(text))))

\* new Set(text.split(' ')): the pieces between single spaces, empty ones
\* included.
RECURSIVE SplitWords(_, _)
SplitWords(s, word) ==
    IF s = <<>> THEN {word}
    ELSE IF s[1] = " " THEN {word} \cup SplitWords(Tail(s), <<>>)
    ELSE SplitWords(Tail(s), Append(word, s[1]))

\* intersection.size / union.size, as the pair of the two sizes.
calculateTextSimilarity(text1, text2) ==
    LET words1 == SplitWords(text1, <<>>)
        words2 == SplitWords(text2, <<>>)
    IN  [intersection |-> Cardinality(words1 \cap words2),
         union |-> Cardinality(words1 \cup words2)]

\* similarity > 0.8
AboveEightTenths(similarity) == similarity.intersection * 10 > similarity.union * 8

hasVerySimilarPointNever(text, seen) == FALSE

hasVerySimilarPoint(text, seen) ==
    \E existing \in seen : AboveEightTenths(calculateTextSimilarity(text, existing))

\* The set `seen` after the points kept so far.
SeenTexts(unique) == {normalizeText(unique[j].text) : j \in 1..Len(unique)}

RECURSIVE DeduplicateFrom(_, _, _)
DeduplicateFrom(points, index, unique) ==
    IF index > Len(points) THEN unique
    ELSE LET normalized == normalizeText(points[index].text)
             seen == SeenTexts(unique)
         IN  DeduplicateFrom(points, index + 1,
                 IF normalized \notin seen /\ ~hasVerySimilarPoint(normalized, seen)
                 THEN Append(unique, points[index])
                 ELSE unique)

deduplicateKeyPoints(points) == DeduplicateFrom(points, 1, <<>>)

\* Math.min(importance, 1) over the sum of the boosts.  A sentence is given
\* by what the function reads from it: the extra weight of its technical
\* terms, the topic-keyword matches weighted by topic confidence, its
\* technical terms and tokens, and the two pattern tests.
calculateSentenceImportance(sentence) ==
    Min(sentence.extraWeight
          + sentence.topicRelevance
          + (sentence.technicalTerms * 500) \div sentence.tokens
          + (IF sentence.hasCodeExample THEN 300 ELSE 0)
          + (IF sentence.hasIndicator THEN 200 ELSE 0),
        1000)

\* The three passes of extractKeyPoints: the factor each applies.
Boost(pass) ==
    CASE pass = "bestPractice" -> 1300
      [] pass = "implementation" -> 1200
      [] OTHER -> 1000

Importance(sentence) ==
    (calculateSentenceImportance(sentence) * Boost(sentence.pass)) \div 1000

\* One sentence of one pass: pushed when the pass's test accepts it and its
\* importance reaches minImportance.
VisitSentence(points, sentence, minImportance) ==
    IF sentence.accepted /\ Importance(sentence) >= minImportance
    THEN Append(points, [text |-> sentence.text, importance |-> Importance(sentence)])
    ELSE points

\* The texts of the sentences.
TextPlain == <<"a", " ", "b", " ", "c", " ", "d", " ", "e">>

TextPunctuated == <<"A", " ", "b", ",", " ", "c", " ", "d", " ", "e", "!">>

TextLonger == <<"a", " ", "b", " ", "c", " ", "d", " ", "e", " ", "f">>

TextShorter == <<"a", " ", "b", " ", "c", " ", "d">>

TextLongest == <<"a", " ", "b", " ", "c", " ", "d", " ", "e", " ", "f", " ", "g">>

TextDashed == <<"a", " ", "-", " ", "b", " ", "c", " ", "d", " ", "e">>

TextOther == <<"x", " ", "y">>

Sentence(text, pass, accepted, extraWeight, topicRelevance, technicalTerms, tokens,
         hasCodeExample, hasIndicator) ==
    [text |-> text, pass |-> pass, accepted |-> accepted, extraWeight |-> extraWeight,
     topicRelevance |-> topicRelevance, technicalTerms |-> technicalTerms,
     tokens |-> tokens, hasCodeExample |-> hasCodeExample, hasIndicator |-> hasIndicator]

\* The sentences of a document, as the passes of extractKeyPoints meet them.
SentenceChoices ==
    { Sentence(TextPlain, "bestPractice", TRUE, 600, 800, 3, 5, FALSE, TRUE),
      Sentence(TextPunctuated, "implementation", TRUE, 0, 0, 2, 5, TRUE, TRUE),
      Sentence(TextLonger, "other", TRUE, 300, 0, 2, 6, FALSE, FALSE),
      Sentence(TextShorter, "other", TRUE, 0, 0, 1, 4, FALSE, FALSE),
      Sentence(TextShorter, "implementation", TRUE, 300, 800, 2, 4, TRUE, FALSE),
      Sentence(TextLongest, "bestPractice", TRUE, 0, 0, 0, 7, FALSE, TRUE),
      Sentence(TextDashed, "other", TRUE, 600, 800, 4, 5, FALSE, FALSE),
      Sentence(TextOther, "implementation", FALSE, 300, 0, 1, 2, FALSE, FALSE) }

SentenceLists == UNION {[1..n -> SentenceChoices] : n \in 0..MaxSentences}

\* options.maxKeyPoints: 0 stands for an option that is not given.
MaxKeyPointsChoices == {0, 2}

\* analyze(content, options) is called on a document.
InitAnalyzer ==
    /\ analysisOptions \in [maxKeyPoints : MaxKeyPointsChoices, minImportance : {0}]
    /\ sentences \in SentenceLists
    /\ keyPoints = <<>>
    /\ analysisKeyPoints = <<>>
    /\ analyzerPc = [pc |-> "extracting", index |-> 1]

\* extractKeyPoints visits the next sentence.
ExtractVisit ==
    /\ analyzerPc.pc = "extracting"
    /\ analyzerPc.index <= Len(sentences)
    /\ keyPoints' = VisitSentence(keyPoints, sentences[analyzerPc.index],
                                  OrDefault(analysisOptions.minImportance,
                                            DefaultMinImportance))
    /\ analyzerPc' = [analyzerPc EXCEPT !.index = @ + 1]
    /\ UNCHANGED <<analysisOptions, sentences, analysisKeyPoints>>
    /\ UNCHANGED otherThanAnalyzer

\* extractKeyPoints returns: sort by importance, slice, deduplicate.
ExtractReturn ==
    /\ analyzerPc.pc = "extracting"
    /\ analyzerPc.index > Len(sentences)
    /\ keyPoints' =
          deduplicateKeyPoints(
              SubSeq(SortByImportance(keyPoints), 1,
                     Min(Len(keyPoints),
                         OrDefault(analysisOptions.maxKeyPoints, DefaultMaxKeyPoints))))
    /\ analyzerPc' = [analyzerPc EXCEPT !.pc = "extracted"]
    /\ UNCHANGED <<analysisOptions, sentences, analysisKeyPoints>>
    /\ UNCHANGED otherThanAnalyzer

\* analyze() builds its result: keyPoints: this.deduplicateKeyPoints(keyPoints).
AnalyzeReturn ==
    /\ analyzerPc.pc = "extracted"
    /\ analysisKeyPoints' = deduplicateKeyPoints(keyPoints)
    /\ analyzerPc' = [analyzerPc EXCEPT !.pc = "returned"]
    /\ UNCHANGED <<analysisOptions, sentences, keyPoints>>
    /\ UNCHANGED otherThanAnalyzer

NextAnalyzer == ExtractVisit \/ ExtractReturn \/ AnalyzeReturn

InitAnalyzerSpec == InitAnalyzer /\ IdleExceptAnalyzer

SpecAnalyzer == InitAnalyzerSpec /\ [][NextAnalyzer]_vars

-----------------------------------------------------------------------------
(* ContentAnalyzer: properties *)

\* The keyPoints array after every sentence was visited.
RECURSIVE VisitAll(_, _, _)
VisitAll(list, index, points) ==
    IF index > Len(list) THEN points
    ELSE VisitAll(list, index + 1,
                  VisitSentence(points, list[index],
                                OrDefault(analysisOptions.minImportance,
                                          DefaultMinImportance)))

\* The list handed to deduplicateKeyPoints by extractKeyPoints.
DeduplicateInput ==
    LET all == SortByImportance(VisitAll(sentences, 1, <<>>))
    IN  SubSeq(all, 1, Min(Len(all), OrDefault(analysisOptions.maxKeyPoints,
                                               DefaultMaxKeyPoints)))

\* Two key points are duplicates: same normalized text, or token-set
\* similarity above 0.8.
Duplicates(p, q) ==
    \/ normalizeText(p.text) = normalizeText(q.text)
    \/ AboveEightTenths(calculateTextSimilarity(normalizeText(p.text),
                                                normalizeText(q.text)))

\* sub is list with some elements left out, the order kept.
RECURSIVE IsSubList(_, _)
IsSubList(sub, list) ==
    IF sub = <<>> THEN TRUE
    ELSE IF list = <<>> THEN FALSE
    ELSE IF Head(sub) = Head(list) THEN IsSubList(Tail(sub), Tail(list))
    ELSE IsSubList(sub, Tail(list))

\* C11 (as claimed): every key-point importance the analyzer produces lies
\* in [0,1], the 1.3x and 1.2x boosts of extractKeyPoints included.
C11_ScoresInUnitInterval ==
    /\ \A i \in 1..Len(keyPoints) :
          keyPoints[i].importance >= 0 /\ keyPoints[i].importance <= 1000
    /\ \A i \in 1..Len(analysisKeyPoints) :
          analysisKeyPoints[i].importance >= 0 /\ analysisKeyPoints[i].importance <= 1000

\* C18: what deduplicateKeyPoints returns is a sub-list of its input, holds no
\* two duplicates, and a point is left out only when an earlier point of the
\* input that duplicates it was kept.
C18_DeduplicateKeyPoints ==
    analyzerPc.pc \in {"extracted", "returned"} =>
        LET input == DeduplicateInput
            output == keyPoints
        IN  /\ IsSubList(output, input)
            /\ \A i, j \in 1..Len(output) : i < j => ~Duplicates(output[i], output[j])
            /\ \A k \in 1..Len(input) :
                  \/ input[k] \in Range(output)
                  \/ \E j \in 1..(k - 1) :
                        input[j] \in Range(output) /\ Duplicates(input[j], input[k])
            /\ (analyzerPc.pc = "returned" => analysisKeyPoints = output)

\* C18 witness: of three points, one was left out for its similarity to an
\* earlier one (the texts differ after normalization), and two were kept.
C18_Witness ==
    /\ analyzerPc.pc = "returned"
    /\ Len(DeduplicateInput) = 3
    /\ Len(analysisKeyPoints) = 2
    /\ \E k \in 1..3 :
          /\ DeduplicateInput[k] \notin Range(analysisKeyPoints)
          /\ \A j \in 1..3 :
                j # k => normalizeText(DeduplicateInput[j].text)
                           # normalizeText(DeduplicateInput[k].text)

-----------------------------------------------------------------------------
(* SearchQueue (src/unnamed/part_009)                                       *)
(*                                                                         *)
(* processQueue is suspended at the rate limiter's consume(), at the retry  *)
(* backoff and at the 5 s wait after a rate-limiter rejection.  It is also  *)
(* cut where it emits itemStarted: the observers run there, with the item   *)
(* in_progress, and may call the public methods.  Observers return          *)
(* normally; the try block of an attempt completes or throws.               *)

\* The largest retryCount with which a failed attempt is still retried, plus one.
RetryLimit == 3

AttemptError == "Unknown error occurred"

CancelledError == "Cancelled by user"

NewItem(id) == [id |-> id, status |-> "pending", retryCount |-> 0, error |-> ""]

\* this.queue.some(item => item.status === 'pending')
SomePending(q) == \E i \in 1..Len(q) : q[i].status = "pending"

\* this.queue.find / findIndex: the first index that satisfies the test.
FirstPending(q) ==
    CHOOSE i \in 1..Len(q) :
        q[i].status = "pending" /\ \A j \in 1..(i - 1) : q[j].status # "pending"

IndexOfId(q, id) == CHOOSE i \in 1..Len(q) : q[i].id = id

RemoveAt(seq, i) == SubSeq(seq, 1, i - 1) \o SubSeq(seq, i + 1, Len(seq))

\* 2 to the power of n.
RECURSIVE Pow2(_)
Pow2(n) == IF n = 0 THEN 1 ELSE 2 * Pow2(n - 1)

StartsLoopAlways(flag, q) == TRUE

\* addSearch calls processQueue unless inProgress, and processQueue returns
\* at once if inProgress or the queue is empty.
StartsLoop(flag, q) == ~flag /\ ~(flag \/ Len(q) = 0)

RetriesUpToFour(item) == item.retryCount < 4

\* if (item.retryCount < 3)
Retries(item) == item.retryCount < RetryLimit

WhileTestLeavingFlag(l, q) ==
    IF SomePending(q)
    THEN /\ loops' = [loops EXCEPT ![l] = [pc |-> "consume", id |-> 0, delay |-> 0]]
         /\ UNCHANGED inProgress
    ELSE /\ loops' = RemoveAt(loops, l)
         /\ UNCHANGED inProgress

\* The loop's while test after an iteration of loop l, with queue q: another
\* iteration begins with consume(), or the loop ends and clears inProgress.
WhileTest(l, q) ==
    IF SomePending(q)
    THEN /\ loops' = [loops EXCEPT ![l] = [pc |-> "consume", id |-> 0, delay |-> 0]]
         /\ UNCHANGED inProgress
    ELSE /\ loops' = RemoveAt(loops, l)
         /\ inProgress' = FALSE

\* addSearch on the state st = [queue, inProgress, loops, nextId].
addSearch(st) ==
    LET q == Append(st.queue, NewItem(st.nextId))
        starts == StartsLoop(st.inProgress, q)
    IN  [queue |-> q,
         inProgress |-> st.inProgress \/ starts,
         loops |-> IF starts
                   THEN Append(st.loops, [pc |-> "consume", id |-> 0, delay |-> 0])
                   ELSE st.loops,
         nextId |-> st.nextId + 1]

\* queries.map(query => this.addSearch(query)): n calls in a row.
RECURSIVE addBatchSearch(_, _)
addBatchSearch(st, n) == IF n = 0 THEN st ELSE addBatchSearch(addSearch(st), n - 1)

InitQueue ==
    /\ queue = <<>>
    /\ inProgress = FALSE
    /\ loops = <<>>
    /\ nextId = 1
    /\ lastCall = [op |-> "none"]

AddSearch ==
    /\ nextId <= MaxItems
    /\ LET st == addSearch([queue |-> queue, inProgress |-> inProgress,
                            loops |-> loops, nextId |-> nextId])
       IN  /\ queue' = st.queue
           /\ inProgress' = st.inProgress
           /\ loops' = st.loops
           /\ nextId' = st.nextId
    /\ lastCall' = [op |-> "addSearch"]
    /\ UNCHANGED otherThanQueue

AddBatchSearch(n) ==
    /\ nextId + n - 1 <= MaxItems
    /\ LET st == addBatchSearch([queue |-> queue, inProgress |-> inProgress,
                                 loops |-> loops, nextId |-> nextId], n)
       IN  /\ queue' = st.queue
           /\ inProgress' = st.inProgress
           /\ loops' = st.loops
           /\ nextId' = st.nextId
    /\ lastCall' = [op |-> "addBatchSearch"]
    /\ UNCHANGED otherThanQueue

CancellableInAnyStatus(item, id) == item.id = id

\* item => item.id === id && item.status === 'pending'
Cancellable(item, id) == item.id = id /\ item.status = "pending"

\* cancelSearch(id): `before` is the status the item had ("absent" without
\* such an item), `returned` the value returned.
CancelSearch(id) ==
    /\ LET found == {i \in 1..Len(queue) : Cancellable(queue[i], id)}
           before == IF \E i \in 1..Len(queue) : queue[i].id = id
                     THEN queue[IndexOfId(queue, id)].status
                     ELSE "absent"
       IN  /\ queue' = IF found = {} THEN queue
                       ELSE LET index == CHOOSE i \in found : \A j \in found : i <= j
                            IN  [queue EXCEPT ![index].status = "failed",
                                              ![index].error = CancelledError]
           /\ lastCall' = [op |-> "cancelSearch", id |-> id, before |-> before,
                           returned |-> (found # {})]
    /\ UNCHANGED <<inProgress, loops, nextId>>
    /\ UNCHANGED otherThanQueue

ClearCompleted ==
    /\ LET Kept(item) == item.status # "completed" /\ item.status # "failed"
       IN  queue' = SelectSeq(queue, Kept)
    /\ lastCall' = [op |-> "clearCompleted"]
    /\ UNCHANGED <<inProgress, loops, nextId>>
    /\ UNCHANGED otherThanQueue

\* rateLimiter.consume settled.  Resolved: the first pending item, if there
\* is one, becomes in_progress and itemStarted is emitted; without one the
\* loop continues with its while test.  Rejected: the loop waits 5 s.
ConsumeSettled(l, ok) ==
    /\ l \in 1..Len(loops)
    /\ loops[l].pc = "consume"
    /\ IF ~ok
       THEN /\ loops' = [loops EXCEPT ![l] = [pc |-> "limited", id |-> 0, delay |-> 5000]]
            /\ UNCHANGED <<queue, inProgress>>
       ELSE IF SomePending(queue)
       THEN /\ queue' = [queue EXCEPT ![FirstPending(queue)].status = "in_progress"]
            /\ loops' = [loops EXCEPT ![l] = [pc |-> "started",
                                              id |-> queue[FirstPending(queue)].id,
                                              delay |-> 0]]
            /\ UNCHANGED inProgress
       ELSE /\ WhileTest(l, queue)
            /\ UNCHANGED queue
    /\ lastCall' = [op |-> "loop"]
    /\ UNCHANGED nextId
    /\ UNCHANGED otherThanQueue

\* The attempt's try block completed (ok) or threw.
AttemptSettled(l, ok) ==
    /\ l \in 1..Len(loops)
    /\ loops[l].pc = "started"
    /\ LET index == IndexOfId(queue, loops[l].id)
           item == queue[index]
       IN  IF ok
           THEN /\ queue' = [queue EXCEPT ![index].status = "completed"]
                /\ WhileTest(l, queue')
           ELSE IF Retries(item)
           THEN /\ queue' = [queue EXCEPT ![index].retryCount = @ + 1,
                                          ![index].status = "pending"]
                /\ loops' = [loops EXCEPT ![l] =
                                [pc |-> "backoff", id |-> item.id,
                                 delay |-> Pow2(item.retryCount + 1) * 1000]]
                /\ UNCHANGED inProgress
           ELSE /\ queue' = [queue EXCEPT ![index].status = "failed",
                                          ![index].error = AttemptError]
                /\ WhileTest(l, queue')
    /\ lastCall' = [op |-> "loop"]
    /\ UNCHANGED nextId
    /\ UNCHANGED otherThanQueue

\* The backoff timer, or the 5 s timer after a rejection, fired.
WaitElapsed(l) ==
    /\ l \in 1..Len(loops)
    /\ loops[l].pc \in {"backoff", "limited"}
    /\ WhileTest(l, queue)
    /\ lastCall' = [op |-> "loop"]
    /\ UNCHANGED <<queue, nextId>>
    /\ UNCHANGED otherThanQueue

NextQueue ==
    \/ AddSearch
    \/ \E n \in 2..MaxBatch : AddBatchSearch(n)
    \/ \E id \in 1..MaxItems : CancelSearch(id)
    \/ ClearCompleted
    \/ \E l \in 1..MaxItems, ok \in BOOLEAN : ConsumeSettled(l, ok)
    \/ \E l \in 1..MaxItems, ok \in BOOLEAN : AttemptSettled(l, ok)
    \/ \E l \in 1..MaxItems : WaitElapsed(l)

InitQueueSpec == InitQueue /\ IdleExceptQueue

SpecQueue == InitQueueSpec /\ [][NextQueue]_vars

-----------------------------------------------------------------------------
(* SearchQueue: properties *)

InQueue(id) == \E i \in 1..Len(queue) : queue[i].id = id

ItemOf(id) == queue[IndexOfId(queue, id)]

\* C12: retryCount never exceeds 3; a failed attempt with fewer than 3
\* retries made puts the item back to pending, counts the retry and waits
\* 2^retryCount seconds; an attempt that fails after 3 retries marks the item
\* failed with the error; and only such an attempt does.
C12_RetryThenFail ==
    [][ /\ \A i \in 1..Len(queue') : queue'[i].retryCount <= 3
        /\ \A l \in 1..Len(loops) :
              (loops[l].pc = "started" /\ lastCall'.op = "loop"
                 /\ queue'[IndexOfId(queue, loops[l].id)].status # "completed")
              => LET index == IndexOfId(queue, loops[l].id)
                     before == queue[index]
                     after == queue'[index]
                 IN  IF before.retryCount < 3
                     THEN /\ after.status = "pending"
                          /\ after.retryCount = before.retryCount + 1
                          /\ Len(loops') = Len(loops)
                          /\ loops'[l].pc = "backoff"
                          /\ loops'[l].delay = Pow2(after.retryCount) * 1000
                     ELSE /\ after.status = "failed"
                          /\ after.error = AttemptError
                          /\ after.retryCount = 3
        /\ \A i \in 1..Len(queue') :
              (queue'[i].status = "failed" /\ queue'[i].error = AttemptError)
                 => queue'[i].retryCount = 3
      ]_vars

\* C12 witness: an item failed for good after its 3 retries.
C12_Witness ==
    \E i \in 1..Len(queue) :
        /\ queue[i].status = "failed"
        /\ queue[i].error = AttemptError
        /\ queue[i].retryCount = 3

\* C13: cancelSearch returns true exactly for an item that was pending; when
\* it returns false nothing changes; a cancelled item stays failed with the
\* error 'Cancelled by user', so the loop never starts it.
C13_CancelOnlyPending ==
    [][ /\ lastCall'.op = "cancelSearch" =>
              /\ lastCall'.returned <=> (lastCall'.before = "pending")
              /\ lastCall'.returned =>
                    /\ InQueue(lastCall'.id)
                    /\ queue'[IndexOfId(queue, lastCall'.id)].status = "failed"
                    /\ queue'[IndexOfId(queue, lastCall'.id)].error = CancelledError
              /\ ~lastCall'.returned => <<queue, inProgress, loops>>' = <<queue, inProgress, loops>>
        /\ \A i \in 1..Len(queue) :
              queue[i].error = CancelledError =>
                 \A j \in 1..Len(queue') :
                    queue'[j].id = queue[i].id =>
                       queue'[j].status = "failed" /\ queue'[j].error = CancelledError
      ]_vars

\* C13 witness: an item that had been put back to pending for a retry was
\* cancelled, and a later cancelSearch of an item in_progress was refused.
C13_Witness ==
    /\ lastCall.op = "cancelSearch"
    /\ lastCall.before = "in_progress"
    /\ ~lastCall.returned
    /\ \E i \in 1..Len(queue) :
          /\ queue[i].error = CancelledError
          /\ queue[i].retryCount > 0

\* C19: at most one processQueue loop runs and at most one item is
\* in_progress.
C19_SingleLoop ==
    /\ Len(loops) <= 1
    /\ Cardinality({i \in 1..Len(queue) : queue[i].status = "in_progress"}) <= 1
    /\ inProgress <=> (Len(loops) = 1)

\* C19 witness: addBatchSearch was called while the loop waited in a retry
\* backoff, and the one loop goes on.
C19_Witness ==
    /\ lastCall.op = "addBatchSearch"
    /\ Len(loops) = 1
    /\ loops[1].pc = "backoff"
    /\ Len(queue) = 3

-----------------------------------------------------------------------------
(* The tool-call handler of the MCP server (src/src/index.ts)               *)

\* An optional numeric argument: not given, or given with a value.
NotGiven == [given |-> FALSE, value |-> 0]

Arg(values) == {NotGiven} \cup {[given |-> TRUE, value |-> v] : v \in values}

\* arg || default
ArgOr(arg, default) == IF arg.given /\ arg.value # 0 THEN arg.value ELSE default

MaxDepthLimit == 2

MaxBranchingLimit == 3

TimeoutLimit == 55000

DefaultMaxBranching == 3

DefaultTimeout == 55000

\* The options the deep_research case passes to startResearch.
HandlerOptions(args) ==
    [maxDepth |-> Min(ArgOr(args.maxDepth, 2), MaxDepthLimit),
     maxBranching |-> Min(ArgOr(args.maxBranching, 3), MaxBranchingLimit),
     timeout |-> Min(ArgOr(args.timeout, 55000), TimeoutLimit),
     minRelevanceScore |-> ArgOr(args.minRelevanceScore, 700)]

\* this.options of the ResearchSession that startResearch constructs from them.
SessionOptionsOf(opts) ==
    [maxDepth |-> OrDefault(opts.maxDepth, DefaultMaxDepth),
     maxBranching |-> OrDefault(opts.maxBranching, DefaultMaxBranching),
     timeout |-> OrDefault(opts.timeout, DefaultTimeout),
     minRelevanceScore |-> OrDefault(opts.minRelevanceScore, DefaultMinRelevance)]

\* A URL argument, by what new URL() makes of it.
UrlArgs ==
    { [text |-> "", parses |-> FALSE, protocol |-> ""],
      [text |-> "not a url", parses |-> FALSE, protocol |-> ""],
      [text |-> "ftp://host/file", parses |-> TRUE, protocol |-> "ftp:"],
      [text |-> "javascript:alert(1)", parses |-> TRUE, protocol |-> "javascript:"],
      [text |-> "http://host/page", parses |-> TRUE, protocol |-> "http:"],
      [text |-> "https://host/page", parses |-> TRUE, protocol |-> "https:"] }

isValidUrl(url) == url.parses /\ url.protocol \in {"http:", "https:"}

DeepResearchArgs ==
    [topic : {"", "topic"},
     maxDepth : Arg({-1, 0, 1, 2, 5}),
     maxBranching : Arg({-1, 0, 2, 3, 9}),
     timeout : Arg({-1, 0, 1, 30000, 55000, 99999}),
     minRelevanceScore : Arg({-500, 0, 500, 1000, 5000})]

\* queries: not given, or a list of the given length.
ParallelSearchArgs == [queries : Arg(0..MaxToolQueries)]

VisitPageArgs == [url : UrlArgs]

Requests ==
    {[name |-> "deep_research", args |-> a] : a \in DeepResearchArgs}
    \cup {[name |-> "parallel_search", args |-> a] : a \in ParallelSearchArgs}
    \cup {[name |-> "visit_page", args |-> a] : a \in VisitPageArgs}
    \cup {[name |-> "unknown_tool", args |-> [none |-> TRUE]]}

\* The McpError code thrown by the checks at the head of a case, "" if none.
Validate(req) ==
    CASE req.name = "deep_research" ->
            IF req.args.topic = "" THEN "InvalidParams" ELSE ""
      [] req.name = "parallel_search" ->
            IF ~req.args.queries.given THEN "InvalidParams" ELSE ""
      [] req.name = "visit_page" ->
            IF req.args.url.text = "" THEN "InvalidParams"
            ELSE IF ~isValidUrl(req.args.url) THEN "InvalidParams"
            ELSE ""
      [] OTHER -> "MethodNotFound"

\* The catch of the handler: whatever was thrown inside, an McpError included,
\* is thrown again as McpError(ErrorCode.InternalError, message).
OuterCatch(code) == "InternalError"

ErrorResponse(code) == [kind |-> "error", code |-> OuterCatch(code)]

ResultResponse == [kind |-> "result"]

InitHandler ==
    /\ request = NoRequest
    /\ toolCall = [pc |-> "idle", thrown |-> ""]
    /\ response = NoResponse
    /\ sessionOptions = NoOptions
    /\ toolBrowser = FALSE

\* A tools/call request arrives: the handler runs up to its first await.
CallTool(req) ==
    /\ toolCall.pc = "idle"
    /\ request' = req
    /\ IF Validate(req) # ""
       THEN /\ toolCall' = [pc |-> "responded", thrown |-> Validate(req)]
            /\ response' = ErrorResponse(Validate(req))
            /\ sessionOptions' = NoOptions
       ELSE /\ toolCall' = [pc |-> req.name, thrown |-> ""]
            /\ response' = NoResponse
            /\ sessionOptions' = IF req.name = "deep_research"
                                 THEN SessionOptionsOf(HandlerOptions(req.args))
                                 ELSE NoOptions
    /\ UNCHANGED toolBrowser
    /\ UNCHANGED otherThanHandler

\* deepResearch.startResearch or parallelSearch.parallelSearch settled.
WorkSettled(ok) ==
    /\ toolCall.pc \in {"deep_research", "parallel_search"}
    /\ IF ok
       THEN /\ toolCall' = [pc |-> "responded", thrown |-> ""]
            /\ response' = ResultResponse
       ELSE /\ toolCall' = [pc |-> "responded", thrown |-> "Error"]
            /\ response' = ErrorResponse("Error")
    /\ UNCHANGED <<request, sessionOptions, toolBrowser>>
    /\ UNCHANGED otherThanHandler

\* visit_page: ensureBrowser() settled; on success the navigation begins.
EnsureBrowserSettled(ok) ==
    /\ toolCall.pc = "visit_page"
    /\ IF ok
       THEN /\ toolCall' = [pc |-> "navigating", thrown |-> ""]
            /\ toolBrowser' = TRUE
            /\ UNCHANGED response
       ELSE /\ toolCall' = [pc |-> "responded", thrown |-> "Error"]
            /\ response' = ErrorResponse("Error")
            /\ UNCHANGED toolBrowser
    /\ UNCHANGED <<request, sessionOptions>>
    /\ UNCHANGED otherThanHandler

\* visit_page: navigation and extraction settled; a failure is thrown as
\* McpError(InternalError) by the inner catch.
VisitSettled(ok) ==
    /\ toolCall.pc = "navigating"
    /\ IF ok
       THEN /\ toolCall' = [pc |-> "responded", thrown |-> ""]
            /\ response' = ResultResponse
       ELSE /\ toolCall' = [pc |-> "responded", thrown |-> "InternalError"]
            /\ response' = ErrorResponse("InternalError")
    /\ UNCHANGED <<request, sessionOptions, toolBrowser>>
    /\ UNCHANGED otherThanHandler

\* The response was sent; the server waits for the next request.
ResponseSent ==
    /\ toolCall.pc = "responded"
    /\ request' = NoRequest
    /\ toolCall' = [pc |-> "idle", thrown |-> ""]
    /\ response' = NoResponse
    /\ sessionOptions' = NoOptions
    /\ UNCHANGED toolBrowser
    /\ UNCHANGED otherThanHandler

NextHandler ==
    \/ \E req \in Requests : CallTool(req)
    \/ ResponseSent
    \/ \E ok \in BOOLEAN : WorkSettled(ok)
    \/ \E ok \in BOOLEAN : EnsureBrowserSettled(ok)
    \/ \E ok \in BOOLEAN : VisitSettled(ok)

InitHandlerSpec == InitHandler /\ IdleExceptHandler

SpecHandler == InitHandlerSpec /\ [][NextHandler]_vars

-----------------------------------------------------------------------------
(* Tool-call handler: properties *)

\* C14 (as claimed): the options that reach the ResearchSession of a
\* deep_research request lie in the advertised ranges, whatever the caller
\* gave.
C14_OptionsClamped ==
    toolCall.pc = "deep_research" =>
        /\ 1 <= sessionOptions.maxDepth /\ sessionOptions.maxDepth <= 2
        /\ 1 <= sessionOptions.maxBranching /\ sessionOptions.maxBranching <= 3
        /\ 30000 <= sessionOptions.timeout /\ sessionOptions.timeout <= 55000
        /\ 0 <= sessionOptions.minRelevanceScore /\ sessionOptions.minRelevanceScore <= 1000

\* C15 (as claimed): a request that fails validation is answered with the
\* invalid-params error, before any browser is launched for it.
C15_ValidationErrorIsInvalidParams ==
    (toolCall.pc = "responded" /\ toolCall.thrown = "InvalidParams") =>
        /\ response.kind = "error"
        /\ response.code = "InvalidParams"

-----------------------------------------------------------------------------
(* ResearchSession and startResearch: lifecycle properties *)

Quiet == \A c \in Calls : calls[c].pc \in {"idle", "returned"}

TerminalStatuses == {"completed", "failed", "cancelled"}

\* c failed: processUrl's catch block returned the empty result after
\* checkTimeout threw or after a fetch had begun.
FailedCall(c) ==
    /\ calls[c].pc = "returned"
    /\ calls[c].result = "empty"
    /\ (calls[c].timedOut \/ Fetches(c) > 0)

C17_EveryBrowserClosed ==
    /\ launched <= 1
    /\ (completePc.pc = "done" /\ Quiet) =>
          (openBrowsers = {} /\ openContexts = {})

\* C20: a terminal status never changes, and timestamp.completed is set
\* exactly when the status is `completed`.
C20_StatusOnlyForward ==
    [][ /\ (status \in TerminalStatuses => status' = status)
        /\ ((completedAt # TimestampUnset) <=> (status = "completed"))
        /\ ((completedAt' # TimestampUnset) <=> (status' = "completed"))
      ]_vars

\* C20 witness: complete() has run, and a processUrl call went on and merged
\* its page afterwards.
C20_Witness ==
    /\ status = "completed"
    /\ completedAt = TimestampNow
    /\ completePc.pc = "done"
    /\ \E c \in Calls : calls[c].pc = "related"

-----------------------------------------------------------------------------
(* ResearchSession: the order and the content of the findings *)

MaxOf(S) == CHOOSE x \in S : \A y \in S : y <= x

\* C21: findings.mainTopics is in descending order of importance and
\* findings.keyInsights in descending order of confidence, in every state,
\* hence after every update, one without topics included.
C21_FindingsSorted ==
    /\ \A i \in 1..(Len(findings.mainTopics) - 1) :
          findings.mainTopics[i].importance >= findings.mainTopics[i + 1].importance
    /\ \A i \in 1..(Len(findings.keyInsights) - 1) :
          findings.keyInsights[i].confidence >= findings.keyInsights[i + 1].confidence

\* C21 witness: an analysis without topics and key points was merged after
\* one that had left two topics of different importance and an insight.
C21_Witness ==
    /\ Len(findings.mainTopics) >= 2
    /\ findings.mainTopics[1].importance > findings.mainTopics[2].importance
    /\ Len(findings.keyInsights) >= 1
    /\ \E i \in 2..Len(findings.sources) :
          findings.sources[i].contributedFindings = <<>>

\* C22: topic names are pairwise distinct, every merged name is held, and a
\* topic's importance is the maximum of the adjusted confidences merged for
\* its name so far.
C22_TopicImportanceIsMax ==
    /\ \A i, j \in 1..Len(findings.mainTopics) :
          i # j => findings.mainTopics[i].name # findings.mainTopics[j].name
    /\ \A e \in topicLog :
          \E i \in 1..Len(findings.mainTopics) : findings.mainTopics[i].name = e.name
    /\ \A i \in 1..Len(findings.mainTopics) :
          LET merged == {e.confidence : e \in {x \in topicLog :
                                                 x.name = findings.mainTopics[i].name}}
          IN  /\ merged # {}
              /\ findings.mainTopics[i].importance = MaxOf(merged)

\* C22 witness: two different confidences were merged for one name, and the
\* topic holds the larger one.
C22_Witness ==
    \E e1, e2 \in topicLog :
        /\ e1.name = e2.name
        /\ e1.confidence < e2.confidence
        /\ \E i \in 1..Len(findings.mainTopics) :
              /\ findings.mainTopics[i].name = e1.name
              /\ findings.mainTopics[i].importance = e2.confidence

\* C29 (as claimed): of two processUrl calls for one url that are in flight
\* at the same time at most one fetches the page and merges findings, and
\* progress.processedContent equals the size of progress.visitedUrls.
C29_SameUrlMergedOnce ==
    /\ progress.processedContent = Cardinality(progress.visitedUrls)
    /\ \A c1, c2 \in Calls :
          (Overlapping(c1, c2) /\ calls[c1].url = calls[c2].url) =>
              /\ Fetches(c1) + Fetches(c2) <= 1
              /\ ~(calls[c1].result = "full" /\ calls[c2].result = "full")

\* C30 (as claimed): a processUrl call issued after complete() has resolved
\* is a no-op: it returns the empty result at once, without going on to launch
\* a browser or open a page.
C30_NoOpAfterComplete ==
    [][ (status = "completed" /\ completePc.pc = "done" /\ Quiet) =>
            \A c \in Calls :
                (calls[c].pc = "idle" /\ calls'[c].pc # "idle") =>
                    (calls'[c].pc = "returned" /\ calls'[c].result = "empty")
      ]_vars

-----------------------------------------------------------------------------
(* ParallelSearch: the returned value *)

\* C26: in the value parallelSearch returns there is one entry per input
\* query, summary.totalQueries is that number, successful and failed add up
\* to it, a failed entry (one with an error) has no results and a successful
\* entry has at least one.
C26_SummaryConsistent ==
    \A i \in Invocations :
        invocations[i].pc = "returned" =>
            LET inv == invocations[i]
                Failed == {k \in 1..Len(inv.results) : inv.results[k].error # ""}
                Successful == {k \in 1..Len(inv.results) : inv.results[k].error = ""}
            IN  /\ Len(inv.results) = Len(inv.queries)
                /\ inv.summary.totalQueries = Len(inv.queries)
                /\ inv.summary.failed = Cardinality(Failed)
                /\ inv.summary.successful = Cardinality(Successful)
                /\ inv.summary.successful + inv.summary.failed = inv.summary.totalQueries
                /\ \A k \in Failed : inv.results[k].results = <<>>
                /\ \A k \in Successful : Len(inv.results[k].results) >= 1

\* C26 witness: a call over several chunks returned with a failed and a
\* successful entry.
C26_Witness ==
    \E i \in Invocations :
        /\ invocations[i].pc = "returned"
        /\ Len(invocations[i].queries) > maxParallel
        /\ invocations[i].summary.failed >= 1
        /\ invocations[i].summary.successful >= 1

\* The dispatcher of SpecDispatcher with the event loop's guarantee: a timer
\* that is due fires, an awaited browser operation settles, and a continuation
\* that can run does run.  The caller is not obliged to call.
FairSpecDispatcher == SpecDispatcher /\ WF_vars(DispatcherStep)

\* C28 (as claimed): every parallelSearch call eventually returns (or rejects
\* out of initialize), whatever happens to its individual searches.
C28_EveryCallReturns ==
    (invocations[1].pc # "idle") ~> (invocations[1].pc \in {"returned", "rejected"})

-----------------------------------------------------------------------------
(* SearchQueue: progress *)

\* The queue of SpecQueue with the event loop's guarantee (a timer that is due
\* fires, a continuation that can run does run) and a rate limiter that
\* settles every consume() and, asked again and again, eventually grants.
FairSpecQueue ==
    /\ SpecQueue
    /\ \A l \in 1..MaxItems :
          /\ WF_vars(\E ok \in BOOLEAN : ConsumeSettled(l, ok))
          /\ SF_vars(ConsumeSettled(l, TRUE))
          /\ WF_vars(\E ok \in BOOLEAN : AttemptSettled(l, ok))
          /\ WF_vars(WaitElapsed(l))

Settled(id) == InQueue(id) => ItemOf(id).status \in {"completed", "failed"}

\* C27: every item accepted by addSearch or addBatchSearch eventually has
\* status completed or failed (clearCompleted may remove it afterwards).
C27_EveryItemSettles ==
    \A id \in 1..MaxItems : InQueue(id) ~> Settled(id)

\* C27 witness: an item was added while the loop was suspended in a retry
\* backoff; no second loop was started for it and it is pending.
C27_Witness ==
    /\ lastCall.op = "addSearch"
    /\ inProgress
    /\ Len(loops) = 1
    /\ loops[1].pc = "backoff"
    /\ Len(queue) >= 2
    /\ queue[Len(queue)].status = "pending"
    /\ queue[Len(queue)].retryCount = 0

-----------------------------------------------------------------------------
(* ContentExtractor.extract (src/src/core/content-extractor.ts)             *)
(*                                                                         *)
(* A document is the sequence of the elements of its body.  An element has  *)
(* a tag, its text (`words` counts the words of it), and `technical`: the   *)
(* outcome of containsTechnicalContent on it.  extract() has no await: it   *)
(* is one step.                                                            *)

WordsPerMinute == 200

\* $('script, style, noscript, iframe, form, link, meta').remove()
RemovedTags == {"script", "style", "noscript", "iframe", "form", "link", "meta"}

\* The tag selectors among this.boilerplateSelectors.
BoilerplateTags == {"nav", "header", "footer"}

\* Texts the third pass takes for UI components.
UiTexts == {"close", "dismiss", "accept", "cancel", "loading", "share", "menu", "search"}

DeduplicatedTags == {"p", "li", "td", "div"}

\* Fourth pass of cleanupDOM from element i on, with the texts seen so far.
RECURSIVE RemoveDuplicates(_, _, _)
RemoveDuplicates(doc, i, seen) ==
    IF i > Len(doc) THEN <<>>
    ELSE IF doc[i].tag \notin DeduplicatedTags \/ doc[i].technical
    THEN <<doc[i]>> \o RemoveDuplicates(doc, i + 1, seen)
    ELSE IF doc[i].text # "" /\ doc[i].text \in seen
    THEN RemoveDuplicates(doc, i + 1, seen)
    ELSE <<doc[i]>> \o RemoveDuplicates(doc, i + 1, seen \cup {doc[i].text})

\* cleanupDOM: the four passes, in order.
cleanupDOM(doc) ==
    LET NotRemovedTag(e) == e.tag \notin RemovedTags
        NotBoilerplate(e) == e.tag \notin BoilerplateTags \/ e.technical
        NotUi(e) == e.technical \/ (e.text \notin UiTexts /\ e.text # "")
        first == SelectSeq(doc, NotRemovedTag)
        second == SelectSeq(first, NotBoilerplate)
        third == SelectSeq(second, NotUi)
    IN  RemoveDuplicates(third, 1, {})

\* Words in $('body').text().
RECURSIVE BodyWords(_)
BodyWords(doc) == IF doc = <<>> THEN 0 ELSE Head(doc).words + BodyWords(Tail(doc))

\* text.trim().split(/\s+/).length: the empty text splits into one empty string.
SplitLength(n) == IF n = 0 THEN 1 ELSE n

\* extractMetadata: word count and reading time of the document it is given.
extractMetadata(doc) ==
    LET words == SplitLength(BodyWords(doc))
    IN  [ wordCount |-> words,
          readingTime |-> (words + WordsPerMinute - 1) \div WordsPerMinute ]

Element(tag, text, words, technical) ==
    [tag |-> tag, text |-> text, words |-> words, technical |-> technical]

ElementChoices ==
    { Element("p", "t1", 150, FALSE),
      Element("p", "t2", 60, FALSE),
      Element("nav", "site links", 50, FALSE),
      Element("nav", "api index", 10, TRUE),
      Element("script", "js", 5, FALSE),
      Element("p", "share", 1, FALSE) }

Documents == UNION {[1..n -> ElementChoices] : n \in 0..MaxElements}

\* A ContentExtractor about to be given the document `html`.
InitExtractor ==
    /\ html \in Documents
    /\ dom = <<>>
    /\ metadata = NoMetadata
    /\ extractPc = "idle"

\* extract(html, url): cheerio.load, cleanupDOM($), then extractMetadata($) on
\* the same document, and the return.
Extract ==
    /\ extractPc = "idle"
    /\ dom' = cleanupDOM(html)
    /\ metadata' = extractMetadata(dom')
    /\ extractPc' = "returned"
    /\ UNCHANGED html
    /\ UNCHANGED otherThanExtractor

NextExtractor == Extract

InitExtractorSpec == InitExtractor /\ IdleExceptExtractor

SpecExtractor == InitExtractorSpec /\ [][NextExtractor]_vars

\* C25 (as claimed): metadata.wordCount and metadata.readingTime are those of
\* the body text of the document as received, before the cleanup pass.
C25_MetadataOfOriginal ==
    extractPc = "returned" =>
        /\ metadata.wordCount = SplitLength(BodyWords(html))
        /\ metadata.readingTime * WordsPerMinute >= SplitLength(BodyWords(html))
        /\ (metadata.readingTime - 1) * WordsPerMinute < SplitLength(BodyWords(html))

-----------------------------------------------------------------------------
(* ParallelSearch.singleSearch: the relevance score (src/unnamed/part_006)  *)
(*                                                                         *)
(* page.$$eval('div.g', ...) maps every element of the result page to a     *)
(* result or to null and filters the nulls out; it is one evaluation.       *)
(* Strings are sequences of characters, scores are thousandths.            *)

DotEdu == <<".", "e", "d", "u">>

DotGov == <<".", "g", "o", "v">>

GithubCom == <<"g", "i", "t", "h", "u", "b", ".", "c", "o", "m">>

StackoverflowCom == <<"s", "t", "a", "c", "k", "o", "v", "e", "r", "f", "l", "o", "w", ".", "c", "o", "m">>

DocsDot == <<"d", "o", "c", "s", ".">>

TextAb == <<"a", "b">>

TextUpperAb == <<"A", "B">>

TextMixedAb == <<"a", "B">>

TextXab == <<"x", "a", "b">>

TextC == <<"c">>

UrlEdu == <<"a", ".", "e", "d", "u">>

UrlGov == <<"b", ".", "g", "o", "v">>

UrlGithub == <<"g", "i", "t", "h", "u", "b", ".", "c", "o", "m", "/", "r">>

UrlStackoverflow == <<"s", "t", "a", "c", "k", "o", "v", "e", "r", "f", "l", "o", "w", ".", "c", "o", "m", "/", "q">>

UrlDocs == <<"d", "o", "c", "s", ".", "x", ".", "i", "o">>

UrlPlain == <<"x", ".", "i", "o">>

UrlGithubEdu == <<"g", "i", "t", "h", "u", "b", ".", "c", "o", "m", "/", "a", ".", "e", "d", "u">>

\* String.prototype.includes
Includes(text, part) ==
    \E i \in 1..(Len(text) - Len(part) + 1) : SubSeq(text, i, i + Len(part) - 1) = part

PositionScoreUnfloored(index) == 1000 - index * 100

\* Math.max(0, 1 - (index * 0.1))
PositionScore(index) == Max(0, 1000 - index * 100)

\* title.toLowerCase().includes(query.toLowerCase()) ? 0.3 : 0
TitleMatchScore(title, query) ==
    IF Includes(toLowerCase(title), toLowerCase(query)) THEN 300 ELSE 0

\* snippet.toLowerCase().includes(query.toLowerCase()) ? 0.2 : 0
SnippetMatchScore(snippet, query) ==
    IF Includes(toLowerCase(snippet), toLowerCase(query)) THEN 200 ELSE 0

UrlQualityScore(url) ==
    IF Includes(url, DotEdu) THEN 300
    ELSE IF Includes(url, DotGov) THEN 300
    ELSE IF Includes(url, GithubCom) THEN 250
    ELSE IF Includes(url, StackoverflowCom) THEN 250
    ELSE IF Includes(url, DocsDot) THEN 250
    ELSE 100

\* The callback of elements.map: null (here [kept |-> FALSE]) for an element
\* without h3, a or div.VwiC3b, else the result with its score.
EvaluateElement(el, index, query) ==
    IF ~el.complete THEN [kept |-> FALSE]
    ELSE [ kept |-> TRUE,
           title |-> el.title,
           url |-> el.url,
           snippet |-> el.snippet,
           relevanceScore |->
               Min(1000, PositionScore(index) + TitleMatchScore(el.title, query)
                           + SnippetMatchScore(el.snippet, query)
                           + UrlQualityScore(el.url)) ]

\* elements.map(...).filter(result => result !== null)
EvaluateResults(els, query) ==
    LET mapped == [i \in 1..Len(els) |-> EvaluateElement(els[i], i - 1, query)]
        NotNull(r) == r.kept
    IN  SelectSeq(mapped, NotNull)

ResultElement(title, url, snippet) ==
    [complete |-> TRUE, title |-> title, url |-> url, snippet |-> snippet]

\* A result that matches no query and has no recognized url.
PlainElement == ResultElement(TextC, UrlPlain, TextC)

\* An element that lacks its title, link or snippet node.
IncompleteElement == [complete |-> FALSE, title |-> <<>>, url |-> <<>>, snippet |-> <<>>]

VariedElements ==
    { ResultElement(TextXab, UrlEdu, TextAb),
      ResultElement(TextUpperAb, UrlGov, TextC),
      ResultElement(TextC, UrlGithub, TextC),
      ResultElement(TextC, UrlStackoverflow, TextMixedAb),
      ResultElement(TextC, UrlDocs, TextC),
      ResultElement(TextAb, UrlPlain, TextC),
      ResultElement(TextC, UrlGithubEdu, TextC),
      IncompleteElement }

Queries == {TextAb, TextUpperAb}

\* Result pages: some plain results, then some varied ones.
ResultPages ==
    { [i \in 1..n |-> PlainElement] \o tail :
        n \in 0..MaxLeading,
        tail \in UNION {[1..m -> VariedElements] : m \in 0..MaxVaried} }

\* singleSearch has typed the query and the result page has loaded.
InitEvaluation ==
    /\ searchQuery \in Queries
    /\ elements \in ResultPages
    /\ scoredResults = <<>>
    /\ evalPc = "idle"

\* const results = await page.$$eval('div.g', (elements, query) => ..., query)
EvaluatePage ==
    /\ evalPc = "idle"
    /\ scoredResults' = EvaluateResults(elements, searchQuery)
    /\ evalPc' = "returned"
    /\ UNCHANGED <<searchQuery, elements>>
    /\ UNCHANGED otherThanEvaluation

NextEvaluation == EvaluatePage

InitEvaluationSpec == InitEvaluation /\ IdleExceptEvaluation

SpecEvaluation == InitEvaluationSpec /\ [][NextEvaluation]_vars

\* The ranks (page positions, from 0) of the complete elements, in order.
RECURSIVE RanksFrom(_)
RanksFrom(i) ==
    IF i > Len(elements) THEN <<>>
    ELSE IF elements[i].complete THEN <<i - 1>> \o RanksFrom(i + 1)
    ELSE RanksFrom(i + 1)

\* `text` contains `part`, letter case ignored.
Contains(text, part) ==
    \E i \in 0..(Len(text) - Len(part)) :
        \A j \in 1..Len(part) : LowerChar(text[i + j]) = LowerChar(part[j])

Indicator(b) == IF b THEN 1 ELSE 0

\* The fixed lookup: 0.3 for .edu / .gov, 0.25 for github.com /
\* stackoverflow.com / docs., 0.1 otherwise.
UrlQualityBonus(url) ==
    IF Contains(url, DotEdu) \/ Contains(url, DotGov) THEN 300
    ELSE IF Contains(url, GithubCom) \/ Contains(url, StackoverflowCom)
            \/ Contains(url, DocsDot) THEN 250
    ELSE 100

\* C24: every returned result has relevanceScore = min(1, max(0, 1 - 0.1 rank)
\* + 0.3 [title contains query] + 0.2 [snippet contains query] +
\* urlQualityBonus), rank being its position on the page; of two results that
\* differ in rank only, the later one never scores higher.
C24_RelevanceScore ==
    evalPc = "returned" =>
        LET ranks == RanksFrom(1)
        IN  /\ Len(scoredResults) = Len(ranks)
            /\ \A j \in 1..Len(scoredResults) :
                  LET r == scoredResults[j]
                      unclipped ==
                          (IF ranks[j] < 10 THEN 1000 - 100 * ranks[j] ELSE 0)
                          + 300 * Indicator(Contains(r.title, searchQuery))
                          + 200 * Indicator(Contains(r.snippet, searchQuery))
                          + UrlQualityBonus(r.url)
                  IN  /\ r.url = elements[ranks[j] + 1].url
                      /\ r.relevanceScore = (IF unclipped > 1000 THEN 1000 ELSE unclipped)
            /\ \A j, k \in 1..Len(scoredResults) :
                  ( /\ j < k
                    /\ scoredResults[j].title = scoredResults[k].title
                    /\ scoredResults[j].snippet = scoredResults[k].snippet
                    /\ scoredResults[j].url = scoredResults[k].url )
                  => scoredResults[j].relevanceScore >= scoredResults[k].relevanceScore

\* C24 witness: a page of 13 elements whose last result, at rank 12, gets no
\* position score and so 0.3 + 0.2 + 0.3, while the first results are
\* clipped to 1 and an element before the last one was dropped as incomplete.
C24_Witness ==
    /\ evalPc = "returned"
    /\ Len(elements) = MaxLeading + 2
    /\ ~elements[MaxLeading + 1].complete
    /\ Len(scoredResults) = MaxLeading + 1
    /\ scoredResults[1].relevanceScore = 1000
    /\ scoredResults[Len(scoredResults)].relevanceScore = 800

-----------------------------------------------------------------------------
(* DeepResearch.startResearch: the two batches (src/src/deep-research.ts)   *)
(*                                                                         *)
(* Each sorted result gets one session.processUrl call.  A call is          *)
(* "notStarted", "inFlight" (suspended in fetchContent, extract or          *)
(* analyze), "merged" (processFindings has merged and awaits                *)
(* processRelatedUrls), "returned" with its result, or "failed" (the catch  *)
(* block returned the empty result).  processUrl never rejects.             *)

\* sortedResults.slice(0, 5)
TopBatch == 5

TopResults(n) == 1..Min(n, TopBatch)

\* sortedResults.slice(5)
RemainingResults(n) == (TopBatch + 1)..n

\* batch.map(r => session.processUrl(r.url)): every call runs up to its first
\* await; with the budget used up checkTimeout throws in each and the call
\* returns the empty result at once.
StartCalls(cs, batch, timedOut) ==
    [c \in DOMAIN cs |->
        IF c \in batch THEN (IF timedOut THEN "failed" ELSE "inFlight") ELSE cs[c]]

BatchJoinedByFirst(cs, batch) ==
    batch = {} \/ \E c \in batch : cs[c] \in {"returned", "failed"}

\* await Promise.all(...): every call of the batch has returned.
BatchJoined(cs, batch) == \A c \in batch : cs[c] \in {"returned", "failed"}

\* processFindings: updateTopics, updateInsights, updateSources, in a row.
MergeWrites(c) ==
    << [call |-> c, list |-> "mainTopics"],
       [call |-> c, list |-> "keyInsights"],
       [call |-> c, list |-> "sources"] >>

\* startResearch suspended in `await this.parallelSearch.parallelSearch(queries)`.
InitResearch ==
    /\ resultCount = 0
    /\ urlCalls = <<>>
    /\ researchPc = "searching"
    /\ writes = <<>>

\* parallelSearch settled.  Resolved with n unique results: they are sorted
\* and the top batch is started.  Rejected: startResearch throws.
SearchSettled(n, ok, timedOut) ==
    /\ researchPc = "searching"
    /\ IF ok
       THEN /\ resultCount' = n
            /\ urlCalls' = StartCalls([c \in 1..n |-> "notStarted"], TopResults(n), timedOut)
            /\ researchPc' = "top"
       ELSE /\ researchPc' = "thrown"
            /\ UNCHANGED <<resultCount, urlCalls>>
    /\ UNCHANGED writes
    /\ UNCHANGED otherThanResearch

\* A call's fetch, extraction or analysis failed: the catch block returns.
UrlCallFailed(c) ==
    /\ c \in DOMAIN urlCalls
    /\ urlCalls[c] = "inFlight"
    /\ urlCalls' = [urlCalls EXCEPT ![c] = "failed"]
    /\ UNCHANGED <<resultCount, researchPc, writes>>
    /\ UNCHANGED otherThanResearch

\* A call's analysis resolved: processFindings merges into the findings.
UrlCallMerged(c) ==
    /\ c \in DOMAIN urlCalls
    /\ urlCalls[c] = "inFlight"
    /\ urlCalls' = [urlCalls EXCEPT ![c] = "merged"]
    /\ writes' = writes \o MergeWrites(c)
    /\ UNCHANGED <<resultCount, researchPc>>
    /\ UNCHANGED otherThanResearch

\* processFindings resolved: the call returns its result.
UrlCallReturned(c) ==
    /\ c \in DOMAIN urlCalls
    /\ urlCalls[c] = "merged"
    /\ urlCalls' = [urlCalls EXCEPT ![c] = "returned"]
    /\ UNCHANGED <<resultCount, researchPc, writes>>
    /\ UNCHANGED otherThanResearch

\* The Promise.all of the top batch resolved: the remaining batch is started.
TopJoined(timedOut) ==
    /\ researchPc = "top"
    /\ BatchJoined(urlCalls, TopResults(resultCount))
    /\ urlCalls' = StartCalls(urlCalls, RemainingResults(resultCount), timedOut)
    /\ researchPc' = "remaining"
    /\ UNCHANGED <<resultCount, writes>>
    /\ UNCHANGED otherThanResearch

\* The Promise.all of the remaining batch resolved: session.complete() is awaited.
RemainingJoined ==
    /\ researchPc = "remaining"
    /\ BatchJoined(urlCalls, RemainingResults(resultCount))
    /\ researchPc' = "completing"
    /\ UNCHANGED <<resultCount, urlCalls, writes>>
    /\ UNCHANGED otherThanResearch

\* session.complete() settled: the results are formatted and returned, or
\* startResearch throws.
SessionCompleteSettled(ok) ==
    /\ researchPc = "completing"
    /\ researchPc' = IF ok THEN "returned" ELSE "thrown"
    /\ UNCHANGED <<resultCount, urlCalls, writes>>
    /\ UNCHANGED otherThanResearch

NextResearch ==
    \/ \E n \in 0..MaxUnique, ok \in BOOLEAN, t \in BOOLEAN : SearchSettled(n, ok, t)
    \/ \E c \in 1..MaxUnique : UrlCallFailed(c)
    \/ \E c \in 1..MaxUnique : UrlCallMerged(c)
    \/ \E c \in 1..MaxUnique : UrlCallReturned(c)
    \/ \E t \in BOOLEAN : TopJoined(t)
    \/ RemainingJoined
    \/ \E ok \in BOOLEAN : SessionCompleteSettled(ok)

InitResearchSpec == InitResearch /\ IdleExceptResearch

SpecResearch == InitResearchSpec /\ [][NextResearch]_vars

\* C23: the three writes of one call's merge are next to each other in the
\* order of all writes to the findings, so the merges of two calls never
\* interleave; and no processUrl of the remaining results has started while
\* a processUrl of the top batch has not returned.
C23_MergesAtomicBatchesInOrder ==
    /\ Len(writes) % 3 = 0
    /\ \A m \in 0..((Len(writes) \div 3) - 1) :
          /\ writes[3 * m + 1].call = writes[3 * m + 2].call
          /\ writes[3 * m + 2].call = writes[3 * m + 3].call
          /\ writes[3 * m + 1].list = "mainTopics"
          /\ writes[3 * m + 2].list = "keyInsights"
          /\ writes[3 * m + 3].list = "sources"
    /\ \A i, j \in 1..Len(writes) :
          (writes[i].call = writes[j].call /\ i <= j) => j - i <= 2
    /\ \A c \in DOMAIN urlCalls :
          (c > TopBatch /\ urlCalls[c] # "notStarted") =>
              \A d \in 1..TopBatch : urlCalls[d] \in {"returned", "failed"}

\* C23 witness: two calls of the top batch merged while both were in flight,
\* another one failed, and a call of the remaining batch has started.
C23_Witness ==
    /\ resultCount > TopBatch
    /\ researchPc = "remaining"
    /\ urlCalls[TopBatch + 1] = "inFlight"
    /\ \E d \in 1..TopBatch : urlCalls[d] = "failed"
    /\ Len(writes) >= 6
    /\ writes[1].call > writes[4].call

=============================================================================
